---- MODULE Spec2Model ----
(***************************************************************************)
(* A model of the transactional filesystem engine of dull: the primitives  *)
(* (transaction/primitives.rs), the executor (transaction/tx_apply.rs),    *)
(* the planner (transaction/tx_builder.rs) and the result type             *)
(* (transaction/tx_result.rs), over a small POSIX-like filesystem.         *)
(***************************************************************************)
EXTENDS Integers, Sequences, FiniteSets, TLC

\* ------------------------------------------------------------------ bounds
\* Longest transaction (number of primitives) the executor is given.
MaxMods == 3
\* Most pushes made on one planner.
MaxPushes == 4
\* Symbolic links followed while resolving one path before ELOOP.
MaxHops == 3
\* The transactions one TxProcessor is handed, and the primitives of each.
MaxTxs == 3
MaxTxMods == 2
\* The generator calls made on one planner.
MaxGens == 2

\* ------------------------------------------------------------------ paths
Names == {"a", "b"}
Root == << >>
\* Every location of the modelled tree: /a, /b and their children.
FsPaths == {<<x>> : x \in Names} \cup {<<x, y>> : x \in Names, y \in Names}
\* The paths primitives name.
PlanPaths == {<<"a">>, <<"b">>, <<"a", "b">>}
\* A module source file outside the tree: a regular file no primitive targets.
ExtFiles == {<<"m">>}
\* Transaction ids (random u32 in the code, distinct here) and backup paths
\* backups/<tx_id>/<name>.
TxIds == {"t1", "t2"}
BakPaths == {<<"backups", t, ToString(i)>> : t \in TxIds, i \in 1..MaxMods}
\* Option::None of a path (a backup path is never the root).
NoPath == << >>
\* Errors of path resolution.
ENoEnt == <<"!noent">>
EOther == <<"!other">>
IsErr(p) == p = ENoEnt \/ p = EOther

Parent(p) == SubSeq(p, 1, Len(p) - 1)
Last(p) == p[Len(p)]
\* Path::components().count()
Depth(p) == Len(p)
\* Path::ancestors(): the path itself, its parent, ..., the root.
Ancestors(p) == [i \in 1..(Len(p) + 1) |-> SubSeq(p, 1, Len(p) + 1 - i)]

\* ------------------------------------------------------------------ nodes
NoneNode == [k |-> "none", v |-> << >>]
DirNode == [k |-> "dir", v |-> << >>]
FileNode(c) == [k |-> "file", v |-> <<c>>]
LinkNode(t) == [k |-> "link", v |-> t]

\* A world is [f: the tree, b: the backup files, d: the tx ids whose backup
\* directory exists].
NodeAt(w, q) ==
    IF q = Root THEN DirNode
    ELSE IF q \in FsPaths THEN w.f[q]
    ELSE IF q \in ExtFiles THEN FileNode("cm")
    ELSE IF q \in BakPaths THEN (IF q[2] \in w.d THEN w.b[q] ELSE NoneNode)
    ELSE NoneNode

\* The real location of directory p, every component followed through
\* symbolic links; an error if p does not resolve to a directory.
RECURSIVE RealDir(_, _, _)
\* ... entry q of a resolved directory holds node n
RealDirEntry(w, q, n, fuel) ==
    CASE n.k = "dir" -> q
      [] n.k = "link" -> IF fuel > 0 THEN RealDir(w, n.v, fuel - 1) ELSE EOther
      [] n.k = "none" -> ENoEnt
      [] OTHER -> EOther
\* ... the parent resolved to d
RealDirIn(w, d, name, fuel) ==
    IF IsErr(d) THEN d
    ELSE RealDirEntry(w, Append(d, name), NodeAt(w, Append(d, name)), fuel)
RealDir(w, p, fuel) ==
    IF p = Root THEN Root
    ELSE RealDirIn(w, RealDir(w, Parent(p), fuel), Last(p), fuel)

\* The location of p with its last component not followed (lstat, unlink,
\* symlink, mkdir, rmdir all work there).
LocIn(d, name) == IF IsErr(d) THEN d ELSE Append(d, name)
Loc(w, p) ==
    IF p \in BakPaths THEN (IF p[2] \in w.d THEN p ELSE ENoEnt)
    ELSE IF p = Root THEN Root
    ELSE LocIn(RealDir(w, Parent(p), MaxHops), Last(p))

\* symlink_metadata(p): the node at p, symbolic links not followed.
NodeOrNone(w, l) == IF IsErr(l) THEN NoneNode ELSE NodeAt(w, l)
LNode(w, p) == NodeOrNone(w, Loc(w, p))
LExists(w, p) == LNode(w, p).k # "none"

\* canonicalize(p): the real path of p, every link followed; an error if
\* the chain dangles or loops.
RECURSIVE Canon(_, _, _)
CanonNode(w, l, n, fuel) ==
    CASE n.k = "none" -> ENoEnt
      [] n.k = "link" -> IF fuel > 0 THEN Canon(w, n.v, fuel - 1) ELSE EOther
      [] OTHER -> l
CanonAt(w, l, fuel) == IF IsErr(l) THEN l ELSE CanonNode(w, l, NodeAt(w, l), fuel)
Canon(w, p, fuel) == CanonAt(w, Loc(w, p), fuel)

\* metadata(p).is_ok() / try_exists(): existence with links followed.
Exists(w, p) == ~IsErr(Canon(w, p, MaxHops))
IsDirAt(w, c) == ~IsErr(c) /\ NodeAt(w, c).k = "dir"
IsDir(w, p) == IsDirAt(w, Canon(w, p, MaxHops))

\* A location the model can write: inside the tree or a backup file.
Writable(q) == q \in FsPaths \/ q \in BakPaths

\* The world with node n stored at real location q.
Put(w, q, n) ==
    IF q \in BakPaths THEN [w EXCEPT !.b[q] = n] ELSE [w EXCEPT !.f[q] = n]

\* No entry lives directly under real location q.
IsEmptyDir(w, q) == \A c \in FsPaths : Parent(c) = q => w.f[c].k = "none"

\* ------------------------------------------------------------------ primitives
\* FsPrimitive; the directory-creation variant is spelled CreateDir by the
\* planner and TryCreateDirs by primitives.rs.
Link(original, target) == [op |-> "Link", src |-> original, tgt |-> target]
CopyFile(source, target) == [op |-> "CopyFile", src |-> source, tgt |-> target]
RemoveFile(p) == [op |-> "RemoveFile", src |-> NoPath, tgt |-> p]
RemoveDir(p) == [op |-> "RemoveDir", src |-> NoPath, tgt |-> p]
CreateDir(p) == [op |-> "CreateDir", src |-> NoPath, tgt |-> p]
Nop == [op |-> "Nop", src |-> NoPath, tgt |-> NoPath]

Failed(w) == [ok |-> FALSE, w |-> w, inv |-> Nop]
Done(w, inv) == [ok |-> TRUE, w |-> w, inv |-> inv]

\* std::os::unix::fs::symlink(original, target)
SymlinkAt(w, l, original) ==
    IF IsErr(l) \/ ~Writable(l) THEN Failed(w)
    ELSE IF NodeAt(w, l).k # "none" THEN Failed(w)
    ELSE Done(Put(w, l, LinkNode(original)), Nop)
Symlink(w, original, target) == SymlinkAt(w, Loc(w, target), original)

\* Where open(O_CREAT | O_TRUNC) of p writes: links are followed.
RECURSIVE WriteLoc(_, _, _)
WriteLocNode(w, l, n, fuel) ==
    CASE n.k = "link" -> IF fuel > 0 THEN WriteLoc(w, n.v, fuel - 1) ELSE EOther
      [] n.k = "dir" -> EOther
      [] OTHER -> l
WriteLocAt(w, l, fuel) == IF IsErr(l) THEN l ELSE WriteLocNode(w, l, NodeAt(w, l), fuel)
WriteLoc(w, p, fuel) == WriteLocAt(w, Loc(w, p), fuel)

\* std::fs::copy(source, target): source, at c, must be a regular file; it
\* is written at l.
FsCopyAt(w, c, l) ==
    IF IsErr(c) \/ IsErr(l) \/ ~Writable(l) THEN Failed(w)
    ELSE IF NodeAt(w, c).k # "file" THEN Failed(w)
    ELSE Done(Put(w, l, NodeAt(w, c)), Nop)
FsCopy(w, source, target) ==
    FsCopyAt(w, Canon(w, source, MaxHops), WriteLoc(w, target, MaxHops))

\* utils::copy_file_or_symlink
SymlinkCanon(w, canon_source, target) ==
    IF IsErr(canon_source) THEN Failed(w) ELSE Symlink(w, canon_source, target)
copy_file_or_symlink(w, source, target) ==
    IF Exists(w, target) THEN Failed(w)
    ELSE IF LNode(w, source).k = "link"
         THEN SymlinkCanon(w, Canon(w, source, MaxHops), target)
         ELSE FsCopy(w, source, target)

\* std::fs::remove_file(path): unlink, never a directory.
RemoveFileAt(w, l) ==
    IF IsErr(l) \/ ~Writable(l) THEN Failed(w)
    ELSE IF NodeAt(w, l).k \in {"none", "dir"} THEN Failed(w)
    ELSE Done(Put(w, l, NoneNode), Nop)
remove_file(w, path) == RemoveFileAt(w, Loc(w, path))

\* std::fs::remove_dir(path): rmdir of an empty directory.
RemoveDirAt(w, l) ==
    IF IsErr(l) \/ ~Writable(l) THEN Failed(w)
    ELSE IF NodeAt(w, l).k # "dir" \/ ~IsEmptyDir(w, l) THEN Failed(w)
    ELSE Done(Put(w, l, NoneNode), Nop)
remove_dir(w, path) == RemoveDirAt(w, Loc(w, path))

\* mkdir(p): "ok", "notfound" (a missing parent) or "err".
MkdirAt(w, l) ==
    IF l = ENoEnt THEN [r |-> "notfound", w |-> w]
    ELSE IF IsErr(l) \/ ~Writable(l) THEN [r |-> "err", w |-> w]
    ELSE IF NodeAt(w, l).k # "none" THEN [r |-> "err", w |-> w]
    ELSE [r |-> "ok", w |-> Put(w, l, DirNode)]
Mkdir(w, p) == MkdirAt(w, Loc(w, p))

\* std::fs::create_dir_all(p): mkdir, creating the missing ancestors first;
\* a mkdir that fails is forgiven when p is a directory (by now).
RECURSIVE create_dir_all(_, _)
AfterMkdir(w, p, m) ==
    IF m.r = "ok" THEN Done(m.w, Nop)
    ELSE IF IsDir(w, p) THEN Done(w, Nop) ELSE Failed(w)
\* ... pr is the outcome of create_dir_all on the parent
CreateLeaf(pr, p) ==
    IF ~pr.ok THEN Failed(pr.w) ELSE AfterMkdir(pr.w, p, Mkdir(pr.w, p))
\* ... m1 is the outcome of the first mkdir(p)
CreateDirAllFrom(w, p, m1) ==
    IF m1.r # "notfound" THEN AfterMkdir(w, p, m1)
    ELSE IF p = Root THEN Failed(w)
    ELSE CreateLeaf(create_dir_all(w, Parent(p)), p)
create_dir_all(w, p) == CreateDirAllFrom(w, p, Mkdir(w, p))

\* The inverse TryCreateDirs returns: RemoveDir of the first ancestor
\* (starting at the path itself) whose try_exists() is Ok(false).
FirstOf(anc, hits) ==
    IF hits = {} THEN Nop
    ELSE RemoveDir(anc[CHOOSE i \in hits : \A j \in hits : i <= j])
first_created_dir(w, path) ==
    FirstOf(Ancestors(path),
            {i \in DOMAIN Ancestors(path) : Canon(w, Ancestors(path)[i], MaxHops) = ENoEnt})

\* Ok(inverse) when the call r succeeded, the error otherwise, the world
\* then being wfail.
OkWith(r, wfail, inverse) == IF r.ok THEN Done(r.w, inverse) ELSE Failed(wfail)
\* ... create_dir_all may fail after it created some ancestors
OkOrPartial(r, inverse) == IF r.ok THEN Done(r.w, inverse) ELSE Failed(r.w)
\* RemoveFile once the backup copy b was attempted.
RemoveAnyway(w, b, path, undo_mod) ==
    IF ~b.ok THEN OkWith(remove_file(w, path), w, undo_mod)
    ELSE OkWith(remove_file(b.w, path), b.w, undo_mod)
RemoveBackedUp(w, b, path, undo_mod) ==
    IF ~b.ok THEN Failed(w) ELSE OkWith(remove_file(b.w, path), b.w, undo_mod)

\* primitives.rs 55-64, CopyFile{source, target}: symlink_metadata(target)
\* must fail. (CopyFollowsTarget tests the target with metadata() only.)
CopyFollowsTarget(w, source, target) ==
    OkWith(copy_file_or_symlink(w, source, target), w, RemoveFile(target))
ApplyCopyFile(w, source, target) ==
    IF LExists(w, target) THEN Failed(w)
    ELSE OkWith(copy_file_or_symlink(w, source, target), w, RemoveFile(target))

\* primitives.rs 84-99, TryCreateDirs(path): nothing to do when
\* symlink_metadata(path) is Ok, else create_dir_all. (CreateDirStrict fails
\* on an existing path; CreateOneDir is a single mkdir.)
CreateDirStrict(w, path) ==
    IF LExists(w, path) THEN Failed(w)
    ELSE OkOrPartial(create_dir_all(w, path), first_created_dir(w, path))
CreateOneDir(w, path) ==
    IF LExists(w, path) THEN Done(w, Nop)
    ELSE IF Mkdir(w, path).r = "ok" THEN Done(Mkdir(w, path).w, RemoveDir(path))
    ELSE Failed(w)
ApplyCreateDir(w, path) ==
    IF LExists(w, path) THEN Done(w, Nop)
    ELSE OkOrPartial(create_dir_all(w, path), first_created_dir(w, path))

\* FsPrimitive::apply(self, backup_dir): backup is backup_dir.join(backup_name),
\* or NoPath when backup_dir is None.
Apply(p, w, backup) ==
    CASE p.op = "Link" ->
           OkWith(Symlink(w, p.src, p.tgt), w, RemoveFile(p.tgt))
      [] p.op = "CopyFile" -> ApplyCopyFile(w, p.src, p.tgt)
      [] p.op = "RemoveFile" ->
           IF backup # NoPath
           THEN RemoveBackedUp(w, copy_file_or_symlink(w, p.tgt, backup), p.tgt,
                               CopyFile(backup, p.tgt))
           ELSE RemoveBackedUp(w, Done(w, Nop), p.tgt, Nop)
      [] p.op = "RemoveDir" ->
           OkWith(remove_dir(w, p.tgt), w, CreateDir(p.tgt))
      [] p.op = "CreateDir" -> ApplyCreateDir(w, p.tgt)
      [] OTHER -> Done(w, Nop)

\* ------------------------------------------------------------------ planner
\* TxBuilder: four HashMap<PathBuf, FsPrimitive>, here total functions over
\* the paths with NoPrim where the map has no entry.
NoPrim == [op |-> "-", src |-> NoPath, tgt |-> NoPath]
EmptyMap == [k \in FsPaths |-> NoPrim]
\* HashMap::contains_key, insert, remove, len
contains_key(m, k) == k \in DOMAIN m /\ m[k] # NoPrim
insert(m, k, v) == [m EXCEPT ![k] = v]
remove(m, k) == [m EXCEPT ![k] = NoPrim]
Keys(m) == {k \in DOMAIN m : m[k] # NoPrim}
map_len(m) == Cardinality(Keys(m))

\* TxBuilder::empty
empty ==
    [files_to_create |-> EmptyMap, files_to_remove |-> EmptyMap,
     dirs_to_create |-> EmptyMap, dirs_to_remove |-> EmptyMap]

\* Two ways push could go wrong: the opposite bucket is left alone; an
\* entry already planned for the path is kept.
PushNoCancel(b, p) ==
    CASE p.op \in {"Link", "CopyFile"} ->
           [b EXCEPT !.files_to_create = insert(@, p.tgt, p)]
      [] p.op = "RemoveFile" ->
           [b EXCEPT !.files_to_remove = insert(@, p.tgt, p)]
      [] p.op = "RemoveDir" ->
           [b EXCEPT !.dirs_to_remove = insert(@, p.tgt, p)]
      [] p.op = "CreateDir" ->
           [b EXCEPT !.dirs_to_create = insert(@, p.tgt, p)]
      [] OTHER -> b
PushFirstWins(b, p) ==
    CASE p.op \in {"Link", "CopyFile"} ->
           [b EXCEPT !.files_to_remove = remove(@, p.tgt),
                     !.files_to_create =
                         IF contains_key(@, p.tgt) THEN @ ELSE insert(@, p.tgt, p)]
      [] p.op = "RemoveFile" ->
           [b EXCEPT !.files_to_create = remove(@, p.tgt),
                     !.files_to_remove = insert(@, p.tgt, p)]
      [] p.op = "RemoveDir" ->
           [b EXCEPT !.dirs_to_create = remove(@, p.tgt),
                     !.dirs_to_remove = insert(@, p.tgt, p)]
      [] p.op = "CreateDir" ->
           [b EXCEPT !.dirs_to_remove = remove(@, p.tgt),
                     !.dirs_to_create = insert(@, p.tgt, p)]
      [] OTHER -> b
\* A third way: a file to create also takes the place of what was planned
\* for a directory at its path.
PushAcrossKinds(b, p) ==
    CASE p.op \in {"Link", "CopyFile"} ->
           [b EXCEPT !.files_to_remove = remove(@, p.tgt),
                     !.dirs_to_create = remove(@, p.tgt),
                     !.files_to_create = insert(@, p.tgt, p)]
      [] p.op = "RemoveFile" ->
           [b EXCEPT !.files_to_create = remove(@, p.tgt),
                     !.files_to_remove = insert(@, p.tgt, p)]
      [] p.op = "RemoveDir" ->
           [b EXCEPT !.dirs_to_create = remove(@, p.tgt),
                     !.dirs_to_remove = insert(@, p.tgt, p)]
      [] p.op = "CreateDir" ->
           [b EXCEPT !.dirs_to_remove = remove(@, p.tgt),
                     !.dirs_to_create = insert(@, p.tgt, p)]
      [] OTHER -> b
\* TxBuilder::push
Push(b, p) ==
    CASE p.op \in {"Link", "CopyFile"} ->
           [b EXCEPT !.files_to_remove = remove(@, p.tgt),
                     !.files_to_create = insert(@, p.tgt, p)]
      [] p.op = "RemoveFile" ->
           [b EXCEPT !.files_to_create = remove(@, p.tgt),
                     !.files_to_remove = insert(@, p.tgt, p)]
      [] p.op = "RemoveDir" ->
           [b EXCEPT !.dirs_to_create = remove(@, p.tgt),
                     !.dirs_to_remove = insert(@, p.tgt, p)]
      [] p.op = "CreateDir" ->
           [b EXCEPT !.dirs_to_remove = remove(@, p.tgt),
                     !.dirs_to_create = insert(@, p.tgt, p)]
      [] OTHER -> b

RECURSIVE PushAll(_, _)
PushAll(b, ps) == IF ps = << >> THEN b ELSE PushAll(Push(b, Head(ps)), Tail(ps))

\* TxBuilder::will_create_dir and its three siblings, TxBuilder::len
will_create_dir(b, p) == contains_key(b.dirs_to_create, p)
will_remove_dir(b, p) == contains_key(b.dirs_to_remove, p)
will_create_file(b, p) == contains_key(b.files_to_create, p)
will_remove_file(b, p) == contains_key(b.files_to_remove, p)
\* len counting the creations only.
lenOfCreations(b) == map_len(b.dirs_to_create) + map_len(b.files_to_create)
len(b) ==
    map_len(b.dirs_to_create) + map_len(b.dirs_to_remove)
    + map_len(b.files_to_create) + map_len(b.files_to_remove)

\* Every order in which a set can be enumerated.
RECURSIVE Perms(_)
Perms(S) ==
    IF S = {} THEN {<< >>}
    ELSE UNION {{<<x>> \o s : s \in Perms(S \ {x})} : x \in S}
\* HashMap::into_iter: the keys in an unspecified order.
IterOrders(m) == Perms(Keys(m))

Rev(s) == [i \in 1..Len(s) |-> s[Len(s) + 1 - i]]
DepthIs(d, k) == Depth(k) = d
\* Itertools::sorted_by_key(|(dir, _)| dir.components().count()): a stable
\* sort of the keys by depth, ascending.
RECURSIVE SortedFrom(_, _)
SortedFrom(ks, d) ==
    IF \A i \in DOMAIN ks : Depth(ks[i]) < d THEN << >>
    ELSE SelectSeq(ks, LAMBDA k : DepthIs(d, k)) \o SortedFrom(ks, d + 1)
sorted_by_key(ks) == SortedFrom(ks, 0)
Values(m, ks) == [i \in 1..Len(ks) |-> m[ks[i]]]

\* Three ways build could go wrong: the removals are not reversed; the files
\* come before the directories; the removals are reversed before the sort
\* instead of after it.
buildAscending(b, o1, o2, o3, o4) ==
    Values(b.dirs_to_create, sorted_by_key(o1))
    \o Values(b.files_to_create, sorted_by_key(o2))
    \o Values(b.files_to_remove, sorted_by_key(o3))
    \o Values(b.dirs_to_remove, sorted_by_key(o4))
buildFilesFirst(b, o1, o2, o3, o4) ==
    Values(b.files_to_create, sorted_by_key(o2))
    \o Values(b.dirs_to_create, sorted_by_key(o1))
    \o Values(b.dirs_to_remove, Rev(sorted_by_key(o4)))
    \o Values(b.files_to_remove, Rev(sorted_by_key(o3)))
buildReverseFirst(b, o1, o2, o3, o4) ==
    Values(b.dirs_to_create, sorted_by_key(o1))
    \o Values(b.files_to_create, sorted_by_key(o2))
    \o Values(b.files_to_remove, Rev(sorted_by_key(Rev(o3))))
    \o Values(b.dirs_to_remove, Rev(sorted_by_key(Rev(o4))))
\* TxBuilder::build, the primitives handed to Transaction::generate, with
\* o1..o4 the orders in which the four maps are iterated.
build(b, o1, o2, o3, o4) ==
    Values(b.dirs_to_create, sorted_by_key(o1))
    \o Values(b.files_to_create, sorted_by_key(o2))
    \o Values(b.files_to_remove, Rev(sorted_by_key(o3)))
    \o Values(b.dirs_to_remove, Rev(sorted_by_key(o4)))
BuildPlans(b) ==
    {build(b, o1, o2, o3, o4) :
        o1 \in IterOrders(b.dirs_to_create), o2 \in IterOrders(b.files_to_create),
        o3 \in IterOrders(b.files_to_remove), o4 \in IterOrders(b.dirs_to_remove)}

\* The undo transaction of a Success: the collected inverses, in rollback
\* order, pushed into a fresh planner and built.
UndoPlans(h) == BuildPlans(PushAll(empty, Rev(h)))

\* ------------------------------------------------------------------ generators
\* target.is_symlink() || target.is_file(): Path::is_symlink looks at the
\* link itself, Path::is_file follows links.
is_file_or_symlink(w, p) ==
    \/ LNode(w, p).k = "link"
    \/ Exists(w, p) /\ NodeAt(w, Canon(w, p, MaxHops)).k = "file"

\* WalkDir::new(target).follow_root_links(false).follow_links(false),
\* flattened: target, then the entries below it, a directory before its
\* content, the entries of one directory in an unspecified order; nothing
\* when target cannot be read. Symbolic links are entries, never descended.
Children(w, p) == {c \in {Append(p, n) : n \in Names} : LExists(w, c)}
RECURSIVE Walks(_, _)
RECURSIVE WalksOf(_, _)
WalksOf(w, o) ==
    IF o = << >> THEN {<< >>}
    ELSE {x \o y : x \in Walks(w, Head(o)), y \in WalksOf(w, Tail(o))}
Walks(w, p) ==
    IF ~LExists(w, p) THEN {<< >>}
    ELSE IF LNode(w, p).k # "dir" THEN {<<p>>}
    ELSE UNION {{<<p>> \o s : s \in WalksOf(w, o)} : o \in Perms(Children(w, p))}

\* tx_gen.rs 35-41: remove_file for a file or a symbolic link, remove_dir
\* for anything else.
RemovalFollowingLinks(w, p) == IF IsDir(w, p) THEN RemoveDir(p) ELSE RemoveFile(p)
RemovalOf(w, p) == IF is_file_or_symlink(w, p) THEN RemoveFile(p) ELSE RemoveDir(p)
RemoveEach(b, w, ps) == PushAll(b, [i \in 1..Len(ps) |-> RemovalOf(w, ps[i])])
\* A generator returns Ok(()) or an error (ok) and leaves the planner as b.
\* tx_gen.rs 16-43: the outcomes of remove_dir_all(target), one for every
\* order the walk can take.
RemovesWhatever(b, w, target) ==
    {[ok |-> TRUE, b |-> RemoveEach(b, w, Rev(sorted_by_key(wk)))] : wk \in Walks(w, target)}
remove_dir_all(b, w, target) ==
    IF is_file_or_symlink(w, target) THEN {[ok |-> FALSE, b |-> b]}
    ELSE {[ok |-> TRUE, b |-> RemoveEach(b, w, Rev(sorted_by_key(wk)))] : wk \in Walks(w, target)}
\* tx_gen.rs 45-53
RemovesParentToo(b, w, target) ==
    {[ok |-> TRUE, b |-> Push(Push(b, RemoveFile(target)), RemoveDir(Parent(target)))]}
remove_any(b, w, target) ==
    IF is_file_or_symlink(w, target) THEN {[ok |-> TRUE, b |-> Push(b, RemoveFile(target))]}
    ELSE remove_dir_all(b, w, target)
\* tx_gen.rs 84-105: the ancestors of target, target included, from the root
\* down, that neither exist nor are planned, each pushed as CreateDir.
EveryDir(b, w, target) == SelectSeq(Rev(Ancestors(target)), LAMBDA d : d # Root)
MissingDirs(b, w, target) ==
    SelectSeq(Rev(Ancestors(target)),
              LAMBDA d : ~LExists(w, d) /\ ~will_create_dir(b, d))
ensure_dirs(b, w, target) ==
    {[ok |-> TRUE,
      b |-> PushAll(b, [i \in 1..Len(MissingDirs(b, w, target)) |->
                           CreateDir(MissingDirs(b, w, target)[i])])]}

\* tx_gen.rs 63-78, one turn of the loop of create_links: the virtual target
\* is root joined with abs_target stripped of its leading "/" (paths are
\* sequences of components, so the join is a concatenation); ensure_dirs of
\* its parent, then link.
LinkedUnprepared(b, w, abs_source, virt_target) == {Push(b, Link(abs_source, virt_target))}
LinkedAt(b, w, abs_source, virt_target) ==
    {Push(r.b, Link(abs_source, virt_target)) : r \in ensure_dirs(b, w, Parent(virt_target))}
\* tx_gen.rs 56-81: the outcomes of create_links(root, links) on one of the
\* planners bs.
RECURSIVE create_links(_, _, _, _)
create_links(bs, w, root, links) ==
    IF links = << >> THEN {[ok |-> TRUE, b |-> b] : b \in bs}
    ELSE create_links(UNION {LinkedAt(b, w, Head(links).abs_source,
                                      root \o Head(links).abs_target) : b \in bs},
                      w, root, Tail(links))


\* ------------------------------------------------------------------ state
VARIABLES
    fs,        \* the live tree: FsPaths -> node
    bak,       \* the backup files: BakPaths -> node
    bakdirs,   \* the tx ids whose backup directory backups/<tx_id> exists
    fs0,       \* the tree before the first run started
    pc,        \* where the executor is
    mode,      \* "atomic" (run_atomic) or "haphazard" (run_haphazard)
    run,       \* 1: the transaction under test, 2: its undo transaction
    mods,      \* run 2: the primitives the iterator has yet to yield
    history,   \* run_atomic's history: the inverses collected so far
    rb,        \* rollback_tx: inverses of history still to apply
    tx_err,    \* run_atomic's tx_err: TRUE once a primitive failed
    res,       \* the TxResult of the current run
    undo_tx,   \* the undo transaction a Success carries
    log,       \* what the current run did, in order
    files_to_create,  \* TxBuilder.files_to_create
    files_to_remove,  \* TxBuilder.files_to_remove
    dirs_to_create,   \* TxBuilder.dirs_to_create
    dirs_to_remove,   \* TxBuilder.dirs_to_remove
    pushed,    \* the primitives pushed on the planner so far, in order
    built,     \* TRUE once build has consumed the planner
    plan,      \* the primitives build emitted
    proc,      \* where the TxProcessor is ("off": no processor is in use)
    processed, \* TxProcessor.processed: the undo transactions, oldest first
    required,  \* TRUE when the current call is run_required
    calls,     \* the number of transactions handed to the processor so far
    returned,  \* what the last call returned: "-", "Ok" or "Err"
    committed, \* the call numbers of the committed transactions, in order
    undone,    \* the call numbers whose undo rollback has run, in order
    fs_tx,     \* the tree just before the current transaction ran
    gens,      \* the generator calls made on the planner, in order
    stage,     \* where the deployment workflow is ("-": no workflow runs)
    leaves     \* the target paths of the overlay's leaves

execVars == <<fs, bak, bakdirs, fs0, pc, mode, run, mods, history, rb, tx_err,
              res, undo_tx, log>>
planVars == <<files_to_create, files_to_remove, dirs_to_create, dirs_to_remove,
              pushed, built, plan>>
procVars == <<proc, processed, required, calls, returned, committed, undone, fs_tx>>
flowVars == <<gens, stage, leaves>>
vars == <<execVars, planVars, procVars, flowVars>>

\* The planner as one TxBuilder value.
Builder ==
    [files_to_create |-> files_to_create, files_to_remove |-> files_to_remove,
     dirs_to_create |-> dirs_to_create, dirs_to_remove |-> dirs_to_remove]

W == [f |-> fs, b |-> bak, d |-> bakdirs]

\* TxResult (tx_result.rs): tx_result is Ok or Err, rb_result None, Ok or Err.
NoResult == [tx_result |-> "-", rb_result |-> "-"]
success == [tx_result |-> "Ok", rb_result |-> "None"]
tx_fail_only == [tx_result |-> "Err", rb_result |-> "None"]
rb_success == [tx_result |-> "Err", rb_result |-> "Ok"]
rb_fail == [tx_result |-> "Err", rb_result |-> "Err"]
\* run_atomic returning Err: "could not create the backup directory".
no_backup_dir == [tx_result |-> "NoRun", rb_result |-> "None"]
is_success(r) == r.tx_result = "Ok"
is_fatal_failure(r) == r.rb_result = "Err"

\* ------------------------------------------------------------------ inputs
LinkOrigs == {<<"m">>, <<"a">>}
CopySources == {<<"m">>, <<"b">>}
Prims ==
    {Link(o, t) : o \in LinkOrigs, t \in PlanPaths}
    \cup {CopyFile(s, t) : s \in CopySources, t \in PlanPaths}
    \cup {RemoveFile(t) : t \in PlanPaths}
    \cup {RemoveDir(t) : t \in PlanPaths}
    \cup {CreateDir(t) : t \in PlanPaths}
    \cup {Nop}

\* The trees a run starts from: /a and /b are absent, a file, a link or a
\* directory; /a/b exists only inside a directory /a.
InitLinkTargets == {<<"m">>, <<"a">>, <<"b">>}
InitNodes == {NoneNode, DirNode, FileNode("c1")} \cup {LinkNode(t) : t \in InitLinkTargets}
InitTree(x, y, z) ==
    [p \in FsPaths |->
        CASE p = <<"a">> -> x
          [] p = <<"b">> -> y
          [] p = <<"a", "b">> -> z
          [] OTHER -> NoneNode]
InitTrees ==
    UNION {{InitTree(x, y, z) :
                y \in InitNodes,
                z \in {n \in InitNodes : n = NoneNode \/ x = DirNode}} :
           x \in InitNodes}

\* TxBuilder::empty, nothing pushed, nothing built.
PlannerFresh ==
    /\ files_to_create = EmptyMap
    /\ files_to_remove = EmptyMap
    /\ dirs_to_create = EmptyMap
    /\ dirs_to_remove = EmptyMap
    /\ pushed = << >>
    /\ built = FALSE
    /\ plan = << >>

\* No transaction is running.
ExecutorIdle ==
    /\ bak = [p \in BakPaths |-> NoneNode]
    /\ bakdirs = {}
    /\ pc = "idle"
    /\ mode = "-"
    /\ run = 1
    /\ mods = << >>
    /\ history = << >>
    /\ rb = 0
    /\ tx_err = FALSE
    /\ res = NoResult
    /\ undo_tx = << >>
    /\ log = << >>

\* TxProcessor::new: nothing processed yet.
ProcessorFresh ==
    /\ processed = << >>
    /\ required = FALSE
    /\ calls = 0
    /\ returned = "-"
    /\ committed = << >>
    /\ undone = << >>
    /\ fs_tx = fs

\* No generator was called and no workflow runs.
FlowOff ==
    /\ gens = << >>
    /\ stage = "-"
    /\ leaves = {}

Init ==
    /\ fs \in InitTrees
    /\ fs0 = fs
    /\ ExecutorIdle
    /\ PlannerFresh
    /\ proc = "off"
    /\ ProcessorFresh
    /\ FlowOff

\* The tx id of the current run and the backup file of its i-th primitive.
TxId == IF run = 1 THEN "t1" ELSE "t2"
NoBackupFile(i) == NoPath
BackupFile(i) == <<"backups", TxId, ToString(i)>>

\* A log entry: "apply"/"fail" for the primitive at position i of the
\* transaction, "inv"/"invfail" for the inverse of the primitive at position
\* i; io marks a failure of the filesystem itself.
Event(e, i, p, io) == [e |-> e, i |-> i, p |-> p, io |-> io]
\* The position (from 0) of the primitive the iterator yields next.
Pos == Cardinality({j \in DOMAIN log : log[j].e \in {"apply", "fail"}})

\* What the iterator over self.mods may yield next: run 1 draws the
\* transaction's primitives as it goes, run 2 takes them from the built
\* undo transaction.
\* A transaction handed to a TxProcessor is drawn from TxPrims and is at most
\* MaxTxMods long.
TxPaths == {<<"a">>, <<"a", "b">>}
TxPrims ==
    {Link(<<"m">>, t) : t \in TxPaths}
    \cup {CopyFile(<<"m">>, t) : t \in TxPaths}
    \cup {RemoveFile(t) : t \in TxPaths}
    \cup {RemoveDir(t) : t \in TxPaths}
    \cup {CreateDir(t) : t \in TxPaths}
ModsBound == IF proc = "off" THEN MaxMods ELSE MaxTxMods
Drawn == IF proc = "off" THEN Prims ELSE TxPrims
\* A transaction no planner built is drawn as the run goes; a built plan and
\* an undo transaction are a queue.
Lazy == run = 1 /\ ~built
Yielded ==
    IF Lazy THEN {m \in Drawn : Pos < ModsBound}
    ELSE IF mods = << >> THEN {} ELSE {Head(mods)}
Exhausted == IF Lazy THEN TRUE ELSE mods = << >>

\* ------------------------------------------------------------------ run_atomic
\* tx_apply.rs 56-65: the backup directory is created, history is empty.
AtomicBegin ==
    /\ UNCHANGED <<planVars, procVars, flowVars>>
    /\ pc = "idle"
    /\ pc' = "fwd"
    /\ mode' = "atomic"
    /\ bakdirs' = bakdirs \cup {TxId}
    /\ UNCHANGED <<fs, bak, fs0, run, mods, history, rb, tx_err, res, undo_tx, log>>

\* tx_apply.rs 63-64: create_dir_all(&tx_backup_dir) fails and run_atomic
\* returns the error; no primitive was applied.
AtomicNoBackupDir ==
    /\ UNCHANGED <<planVars, procVars, flowVars>>
    /\ pc = "idle"
    /\ pc' = "done"
    /\ mode' = "atomic"
    /\ res' = no_backup_dir
    /\ UNCHANGED <<fs, bak, bakdirs, fs0, run, mods, history, rb, tx_err, undo_tx, log>>

\* tx_apply.rs 66-83: one turn of the loop over self.mods. io_error is a
\* failure of the filesystem itself (permissions, I/O), nothing changed.
AtomicApply ==
    /\ UNCHANGED <<planVars, procVars, flowVars>>
    /\ pc = "fwd" /\ mode = "atomic"
    /\ \E m \in Yielded, io_error \in BOOLEAN :
        \E r \in {IF io_error THEN Failed(W) ELSE Apply(m, W, BackupFile(Pos + 1))} :
           /\ fs' = r.w.f
           /\ bak' = r.w.b
           /\ IF r.ok
              THEN /\ history' = Append(history, r.inv)
                   /\ log' = Append(log, Event("apply", Pos, m, FALSE))
                   /\ UNCHANGED <<pc, tx_err>>
              ELSE /\ tx_err' = TRUE
                   /\ pc' = "rollback_tx"
                   /\ log' = Append(log, Event("fail", Pos, m, io_error))
                   /\ UNCHANGED history
    /\ rb' = 0
    /\ mods' = IF Lazy THEN mods ELSE Tail(mods)
    /\ UNCHANGED <<bakdirs, fs0, mode, run, res, undo_tx>>

\* tx_apply.rs 66: the iterator is exhausted, every primitive was applied.
AtomicLoopEnd ==
    /\ UNCHANGED <<planVars, procVars, flowVars>>
    /\ pc = "fwd" /\ mode = "atomic"
    /\ Exhausted
    /\ pc' = "rollback_tx"
    /\ UNCHANGED <<fs, bak, bakdirs, fs0, mode, run, mods, history, rb, tx_err,
                   res, undo_tx, log>>

\* tx_apply.rs 9-29, rollback_tx entered: with no tx_err the result is
\* success, carrying the undo transaction built from history; otherwise
\* history.into_iter().rev() is started.
RollbackBegin ==
    /\ UNCHANGED <<planVars, procVars, flowVars>>
    /\ pc = "rollback_tx"
    /\ IF tx_err
       THEN /\ pc' = "rollback"
            /\ rb' = Len(history)
            /\ res' = res
            /\ undo_tx' = undo_tx
       ELSE /\ pc' = "cleanup"
            /\ res' = success
            /\ rb' = rb
            /\ undo_tx' \in UndoPlans(history)
    /\ UNCHANGED <<fs, bak, bakdirs, fs0, mode, run, mods, history, tx_err, log>>

\* tx_apply.rs 15: history.into_iter().rev() with n inverses still to go
\* yields the n-th element of history.
NextInverseForward(h, n) == h[Len(h) + 1 - n]
NextInverse(h, n) == h[n]

\* tx_apply.rs 15-24 with the error of an inverse ignored: the loop goes on
\* to the older inverses.
RollbackStepOnward ==
    /\ UNCHANGED <<planVars, procVars, flowVars>>
    /\ pc = "rollback" /\ rb > 0
    /\ \E io_error \in BOOLEAN :
        LET m_inv == NextInverse(history, rb) IN
        \E r \in {IF io_error THEN Failed(W) ELSE Apply(m_inv, W, NoPath)} :
        /\ fs' = r.w.f
        /\ bak' = r.w.b
        /\ log' = Append(log, Event(IF r.ok THEN "inv" ELSE "invfail", rb - 1, m_inv,
                                    io_error))
    /\ rb' = rb - 1
    /\ UNCHANGED <<bakdirs, fs0, mode, run, mods, history, tx_err, undo_tx, pc, res>>

\* tx_apply.rs 15-24: the next inverse, m_inv.apply(None); the first error
\* ends the rollback with rb_fail.
RollbackStep ==
    /\ UNCHANGED <<planVars, procVars, flowVars>>
    /\ pc = "rollback" /\ rb > 0
    /\ \E io_error \in BOOLEAN :
        LET m_inv == NextInverse(history, rb) IN
        \E r \in {IF io_error THEN Failed(W) ELSE Apply(m_inv, W, NoPath)} :
        /\ fs' = r.w.f
        /\ bak' = r.w.b
        /\ IF r.ok
           THEN /\ rb' = rb - 1
                /\ log' = Append(log, Event("inv", rb - 1, m_inv, FALSE))
                /\ UNCHANGED <<pc, res>>
           ELSE /\ res' = rb_fail
                /\ pc' = "cleanup"
                /\ log' = Append(log, Event("invfail", rb - 1, m_inv, io_error))
                /\ UNCHANGED rb
    /\ UNCHANGED <<bakdirs, fs0, mode, run, mods, history, tx_err, undo_tx>>

\* tx_apply.rs 25-26: every inverse applied, rb_success.
RollbackStalls == pc = "rollback" /\ rb = 0 /\ UNCHANGED vars
RollbackEnd ==
    /\ UNCHANGED <<planVars, procVars, flowVars>>
    /\ pc = "rollback" /\ rb = 0
    /\ res' = rb_success
    /\ pc' = "cleanup"
    /\ UNCHANGED <<fs, bak, bakdirs, fs0, mode, run, mods, history, rb, tx_err,
                   undo_tx, log>>

\* tx_apply.rs 88-96: the backups are removed unless the failure is fatal.
RemovesBackupsOnSuccess(r) == is_success(r)
RemovesBackups(r) == ~is_fatal_failure(r)

AtomicCleanup ==
    /\ UNCHANGED <<planVars, procVars, flowVars>>
    /\ pc = "cleanup"
    /\ IF RemovesBackups(res)
       THEN /\ bakdirs' = bakdirs \ {TxId}
            /\ bak' = [p \in BakPaths |-> IF p[2] = TxId THEN NoneNode ELSE bak[p]]
       ELSE UNCHANGED <<bakdirs, bak>>
    /\ pc' = "done"
    /\ UNCHANGED <<fs, fs0, mode, run, mods, history, rb, tx_err, res, undo_tx, log>>

\* ------------------------------------------------------------------ run_haphazard
\* tx_apply.rs 32-36: no backup directory, no history.
HaphazardBegin ==
    /\ UNCHANGED <<planVars, procVars, flowVars>>
    /\ pc = "idle" /\ run = 1
    /\ pc' = "hap"
    /\ mode' = "haphazard"
    /\ UNCHANGED <<fs, bak, bakdirs, fs0, run, mods, history, rb, tx_err, res,
                   undo_tx, log>>

\* tx_apply.rs 42-45: an error returns from run_haphazard.
HaphazardOnError == "done"

\* tx_apply.rs 37-47: m.apply(None); the first error is returned at once.
HaphazardApply ==
    /\ UNCHANGED <<planVars, procVars, flowVars>>
    /\ pc = "hap"
    /\ \E m \in Yielded, io_error \in BOOLEAN :
        \E r \in {IF io_error THEN Failed(W) ELSE Apply(m, W, NoPath)} :
           /\ fs' = r.w.f
           /\ bak' = r.w.b
           /\ IF r.ok
              THEN /\ log' = Append(log, Event("apply", Pos, m, FALSE))
                   /\ UNCHANGED <<pc, res>>
              ELSE /\ res' = tx_fail_only
                   /\ pc' = HaphazardOnError
                   /\ log' = Append(log, Event("fail", Pos, m, io_error))
    /\ mods' = IF Lazy THEN mods ELSE Tail(mods)
    /\ UNCHANGED <<bakdirs, fs0, mode, run, history, rb, tx_err, undo_tx>>

\* tx_apply.rs 48-50: every primitive applied.
HaphazardEnd ==
    /\ UNCHANGED <<planVars, procVars, flowVars>>
    /\ pc = "hap"
    /\ Exhausted
    /\ res' = success
    /\ pc' = "done"
    /\ UNCHANGED <<fs, bak, bakdirs, fs0, mode, run, mods, history, rb, tx_err,
                   undo_tx, log>>

\* main.rs 149-155 (run-transaction): the undo transaction of a successful
\* atomic run is itself run atomically, under its own tx id.
RunUndo ==
    /\ UNCHANGED <<planVars, procVars, flowVars>>
    /\ pc = "done" /\ run = 1 /\ mode = "atomic" /\ is_success(res)
    /\ run' = 2
    /\ mods' = undo_tx
    /\ pc' = "idle"
    /\ history' = << >>
    /\ log' = << >>
    /\ res' = NoResult
    /\ UNCHANGED <<fs, bak, bakdirs, fs0, mode, rb, tx_err, undo_tx>>

Next ==
    \/ AtomicBegin
    \/ AtomicNoBackupDir
    \/ AtomicApply
    \/ AtomicLoopEnd
    \/ RollbackBegin
    \/ RollbackStep
    \/ RollbackEnd
    \/ AtomicCleanup
    \/ HaphazardBegin
    \/ HaphazardApply
    \/ HaphazardEnd
    \/ RunUndo

Spec == Init /\ [][Next]_vars

\* ------------------------------------------------------------------ TxProcessor
\* The executor as a call of the processor finds it: nothing run yet.
ExecutorReset ==
    /\ pc' = "idle"
    /\ mode' = "-"
    /\ run' = 1
    /\ mods' = << >>
    /\ history' = << >>
    /\ rb' = 0
    /\ tx_err' = FALSE
    /\ res' = NoResult
    /\ undo_tx' = << >>
    /\ log' = << >>

\* tx_processor.rs 23: a call hands tx to run_atomic. The processor can be
\* called again after run_required returned the error of a rolled back
\* workflow ("failed").
StartTx(req) ==
    /\ proc \in {"ready", "failed"} /\ calls < MaxTxs
    /\ proc' = "run_optional"
    /\ required' = req
    /\ calls' = calls + 1
    /\ returned' = "-"
    /\ fs_tx' = fs
    /\ ExecutorReset
    /\ UNCHANGED <<fs, bak, bakdirs, fs0, processed, committed, undone, planVars,
                   flowVars>>

\* tx_processor.rs 22-23: run_optional(tx) called by the workflow.
run_optional == StartTx(FALSE)
\* tx_processor.rs 36-37: run_required(tx) calls run_optional(tx).
run_required == StartTx(TRUE)

\* tx_processor.rs 27-29: panic on a fatal failure.
PanicsOnNothing(r) == FALSE
PanicsOn(r) == is_fatal_failure(r)

\* An entry of processed: the undo transaction of call n.
UndoOf(n, ms) == [n |-> n, mods |-> ms]
\* tx_processor.rs 31: self.processed.push(undo_tx)
PushUndo(ps, u) == Append(ps, u)

\* tx_processor.rs 24-33 and 38-44: run_atomic has returned. A fatal failure
\* panics; a Success pushes the undo transaction and returns Ok; a TxFailure
\* returns the error, upon which run_required starts rollback.
run_optional_returns ==
    /\ proc = "run_optional" /\ pc = "done"
    /\ IF PanicsOn(res)
       THEN /\ proc' = "panic"
            /\ pc' = "panic"
            /\ UNCHANGED <<processed, committed, returned>>
       ELSE IF is_success(res)
       THEN /\ processed' = PushUndo(processed, UndoOf(calls, undo_tx))
            /\ committed' = Append(committed, calls)
            /\ returned' = "Ok"
            /\ proc' = "ready"
            /\ pc' = "proc"
       ELSE /\ proc' = IF required THEN "rollback" ELSE "ready"
            /\ returned' = IF required THEN "-" ELSE "Err"
            /\ pc' = "proc"
            /\ UNCHANGED <<processed, committed>>
    /\ UNCHANGED <<fs, bak, bakdirs, fs0, mode, run, mods, history, rb, tx_err, res,
                   undo_tx, log, required, calls, undone, fs_tx, planVars,
                   flowVars>>

\* tx_processor.rs 48: self.processed.drain(..).rev() yields the last entry
\* still in the queue.
NextUndoForward(ps) == 1
Undrained(ps, k) == ps
NextUndo(ps) == Len(ps)
Drained(ps, k) == [i \in 1..(Len(ps) - 1) |-> IF i < k THEN ps[i] ELSE ps[i + 1]]

\* tx_processor.rs 48-50: the next undo transaction is handed to run_haphazard.
rollback_next ==
    /\ proc = "rollback" /\ pc = "proc" /\ processed # << >>
    /\ \E k \in {NextUndo(processed)} :
        /\ mods' = processed[k].mods
        /\ undone' = Append(undone, processed[k].n)
        /\ processed' = Drained(processed, k)
    /\ pc' = "hap"
    /\ mode' = "haphazard"
    /\ run' = 2
    /\ log' = << >>
    /\ res' = NoResult
    /\ UNCHANGED <<fs, bak, bakdirs, fs0, history, rb, tx_err, undo_tx, proc, required,
                   calls, returned, committed, fs_tx, planVars, flowVars>>

\* Transaction::run_haphazard -> Result<(), Error>: the first error of a
\* primitive is returned.
HaphazardErr(r) == ~is_success(r)

\* tx_processor.rs 50-52 without the .expect(): the loop goes on whatever
\* run_haphazard returned.
rollback_unchecked ==
    /\ proc = "rollback" /\ pc = "done"
    /\ pc' = "proc"
    /\ UNCHANGED <<fs, bak, bakdirs, fs0, mode, run, mods, history, rb, tx_err, res,
                   undo_tx, log, proc, processed, required, calls, returned,
                   committed, undone, fs_tx, planVars, flowVars>>

\* tx_processor.rs 50-52: .expect() panics when run_haphazard returned an
\* error, else the loop goes on.
rollback_expect ==
    /\ proc = "rollback" /\ pc = "done"
    /\ IF HaphazardErr(res)
       THEN /\ proc' = "panic"
            /\ pc' = "panic"
       ELSE /\ proc' = proc
            /\ pc' = "proc"
    /\ UNCHANGED <<fs, bak, bakdirs, fs0, mode, run, mods, history, rb, tx_err, res,
                   undo_tx, log, processed, required, calls, returned, committed,
                   undone, fs_tx, planVars, flowVars>>

\* tx_processor.rs 54 and 41: rollback returns Ok(()) and run_required returns
\* the error of the transaction; main.rs 102-115 propagates it with `?`.
rollback_returns ==
    /\ proc = "rollback" /\ pc = "proc" /\ processed = << >>
    /\ proc' = "failed"
    /\ returned' = "Err"
    /\ UNCHANGED <<execVars, processed, required, calls, committed, undone, fs_tx,
                   planVars, flowVars>>

\* The trees a workflow starts from: /a is absent, a file, a link or a
\* directory, empty or holding the file /a/b.
ProcTrees ==
    {InitTree(x, NoneNode, NoneNode) :
        x \in {NoneNode, DirNode, FileNode("c1"), LinkNode(<<"m">>)}}
    \cup {InitTree(DirNode, NoneNode, FileNode("c1"))}

\* TxProcessor::new (tx_processor.rs 13-19).
ProcInit ==
    /\ fs \in ProcTrees
    /\ fs0 = fs
    /\ bak = [p \in BakPaths |-> NoneNode]
    /\ bakdirs = {}
    /\ pc = "proc"
    /\ mode = "-"
    /\ run = 1
    /\ mods = << >>
    /\ history = << >>
    /\ rb = 0
    /\ tx_err = FALSE
    /\ res = NoResult
    /\ undo_tx = << >>
    /\ log = << >>
    /\ PlannerFresh
    /\ proc = "ready"
    /\ ProcessorFresh
    /\ FlowOff

ProcNext ==
    \/ run_optional
    \/ run_required
    \/ AtomicBegin
    \/ AtomicApply
    \/ AtomicLoopEnd
    \/ RollbackBegin
    \/ RollbackStep
    \/ RollbackEnd
    \/ AtomicCleanup
    \/ run_optional_returns
    \/ rollback_next
    \/ HaphazardApply
    \/ HaphazardEnd
    \/ rollback_expect
    \/ rollback_returns

ProcSpec == ProcInit /\ [][ProcNext]_vars

\* run_atomic is one sequential call with no cancellation point: once it is
\* entered, the step it is at is taken.
AtomicStep ==
    \/ AtomicApply
    \/ AtomicLoopEnd
    \/ RollbackBegin
    \/ RollbackStep
    \/ RollbackEnd
    \/ AtomicCleanup
\* The runs whose termination is checked: a transaction of at most
\* MaxTxMods primitives of TxPrims, handed over as a whole, on a tree of
\* ProcTrees.
LiveInit ==
    /\ fs \in ProcTrees
    /\ fs0 = fs
    /\ bak = [p \in BakPaths |-> NoneNode]
    /\ bakdirs = {}
    /\ pc = "idle"
    /\ mode = "-"
    /\ run = 1
    /\ mods \in UNION {[1..n -> TxPrims] : n \in 0..MaxTxMods}
    /\ history = << >>
    /\ rb = 0
    /\ tx_err = FALSE
    /\ res = NoResult
    /\ undo_tx = << >>
    /\ log = << >>
    /\ files_to_create = EmptyMap
    /\ files_to_remove = EmptyMap
    /\ dirs_to_create = EmptyMap
    /\ dirs_to_remove = EmptyMap
    /\ pushed = << >>
    /\ built = TRUE
    /\ plan = mods
    /\ proc = "off"
    /\ ProcessorFresh
    /\ FlowOff
LiveNext ==
    \/ AtomicBegin
    \/ AtomicNoBackupDir
    \/ AtomicStep
LiveSpec == LiveInit /\ [][LiveNext]_vars /\ WF_vars(AtomicStep)

\* ------------------------------------------------------------------ planner runs
\* TxBuilder::push, reached through link, copy_file, remove_file, create_dir
\* and remove_dir (and with Nop by the undo construction).
PlannerPush ==
    /\ ~built /\ Len(pushed) < MaxPushes
    /\ \E p \in Prims :
        LET b == Push(Builder, p) IN
        /\ files_to_create' = b.files_to_create
        /\ files_to_remove' = b.files_to_remove
        /\ dirs_to_create' = b.dirs_to_create
        /\ dirs_to_remove' = b.dirs_to_remove
        /\ pushed' = Append(pushed, p)
    /\ UNCHANGED <<built, plan, execVars, procVars, flowVars>>

\* TxBuilder::build: the planner is consumed and the plan emitted.
PlannerBuild ==
    /\ ~built
    /\ plan' \in BuildPlans(Builder)
    /\ built' = TRUE
    /\ UNCHANGED <<files_to_create, files_to_remove, dirs_to_create, dirs_to_remove,
                   pushed, execVars, procVars, flowVars>>

PlannerInit ==
    /\ fs = InitTree(NoneNode, NoneNode, NoneNode)
    /\ fs0 = fs
    /\ ExecutorIdle
    /\ PlannerFresh
    /\ proc = "off"
    /\ ProcessorFresh
    /\ FlowOff

PlannerNext ==
    \/ PlannerPush
    \/ PlannerBuild

PlannerSpec == PlannerInit /\ [][PlannerNext]_vars

\* ------------------------------------------------------------------ generated plans
\* A generator called on the planner: its pushes reach the four buckets, the
\* call and its result are recorded.
Generated(name, target, outcomes) ==
    /\ pc = "gen" /\ ~built /\ Len(gens) < MaxGens
    /\ \E r \in outcomes :
        /\ files_to_create' = r.b.files_to_create
        /\ files_to_remove' = r.b.files_to_remove
        /\ dirs_to_create' = r.b.dirs_to_create
        /\ dirs_to_remove' = r.b.dirs_to_remove
        /\ gens' = Append(gens, [gen |-> name, target |-> target, ok |-> r.ok])
    /\ UNCHANGED <<pushed, built, plan, execVars, procVars, stage, leaves>>

GenRemoveDirAll ==
    \E t \in PlanPaths : Generated("remove_dir_all", t, remove_dir_all(Builder, W, t))
GenRemoveAny ==
    \E t \in PlanPaths : Generated("remove_any", t, remove_any(Builder, W, t))
GenEnsureDirs ==
    \E t \in PlanPaths : Generated("ensure_dirs", t, ensure_dirs(Builder, W, t))
\* create_links on a fresh planner: the overlay root is / or /a, one or two
\* links from the module file /m to targets that stay inside the tree.
LinkLists(root) ==
    UNION {[1..n -> {[abs_source |-> <<"m">>, abs_target |-> t] :
                        t \in {u \in PlanPaths : root \o u \in FsPaths}}] : n \in 1..2}
GenCreateLinks ==
    /\ gens = << >>
    /\ \E root \in {Root, <<"a">>} : \E links \in LinkLists(root) :
         Generated("create_links", [root |-> root, links |-> links],
                   create_links({Builder}, W, root, links))

\* The built plan is handed to the executor.
RunPlan ==
    /\ pc = "gen" /\ built
    /\ pc' = "idle"
    /\ mods' = plan
    /\ UNCHANGED <<fs, bak, bakdirs, fs0, mode, run, history, rb, tx_err, res,
                   undo_tx, log, planVars, procVars, flowVars>>

\* The trees the generators read: those of a run, and those with a file
\* /b/a inside a directory /b.
GenInit ==
    /\ fs \in InitTrees
               \cup {[t EXCEPT ![<<"b", "a">>] = FileNode("c2")] :
                        t \in {u \in InitTrees : u[<<"b">>] = DirNode}}
    /\ fs0 = fs
    /\ bak = [p \in BakPaths |-> NoneNode]
    /\ bakdirs = {}
    /\ pc = "gen"
    /\ mode = "-"
    /\ run = 1
    /\ mods = << >>
    /\ history = << >>
    /\ rb = 0
    /\ tx_err = FALSE
    /\ res = NoResult
    /\ undo_tx = << >>
    /\ log = << >>
    /\ PlannerFresh
    /\ proc = "off"
    /\ ProcessorFresh
    /\ FlowOff

GenNext ==
    \/ GenRemoveDirAll
    \/ GenRemoveAny
    \/ GenEnsureDirs
    \/ GenCreateLinks
    \/ PlannerBuild
    \/ RunPlan
    \/ AtomicBegin
    \/ AtomicApply
    \/ AtomicLoopEnd
    \/ RollbackBegin
    \/ RollbackStep
    \/ RollbackEnd
    \/ AtomicCleanup
    \/ RunUndo

GenSpec == GenInit /\ [][GenNext]_vars

\* ------------------------------------------------------------------ deployment
\* What one turn of a workflow's loop over the leaves plans for the leaf
\* with target t (its source is the module file /m):
\*   prepare_deployment (virtual_system.rs 206-217), clearing or not,
\*   soft_deploy (232-237), hard_deploy (247-281), undeploy (167-175).
LeafPlans(phase, b, w, t) ==
    CASE phase = "prepare_deployment" -> {r.b : r \in ensure_dirs(b, w, Parent(t))}
      [] phase = "clear_and_prepare" ->
            IF LExists(w, t)
            THEN UNION {{r.b : r \in ensure_dirs(c.b, w, Parent(t))} :
                           c \in {x \in remove_any(b, w, t) : x.ok}}
            ELSE {r.b : r \in ensure_dirs(b, w, Parent(t))}
      [] phase = "soft_deploy" -> {Push(b, Link(<<"m">>, t))}
      [] phase = "hard_deploy" ->
            {Push(r.b, CopyFile(<<"m">>, t)) : r \in ensure_dirs(b, w, Parent(t))}
      [] OTHER -> {r.b : r \in {x \in remove_any(b, w, t) : x.ok}}
\* The planners the loop can leave, the leaves taken in the order ls.
RECURSIVE Planned(_, _, _, _)
Planned(phase, bs, w, ls) ==
    IF ls = << >> THEN bs
    ELSE Planned(phase, UNION {LeafPlans(phase, b, w, Head(ls)) : b \in bs}, w, Tail(ls))

\* A workflow builds its transaction and hands it to run_atomic.
Started(name, phase) ==
    /\ \E o \in Perms(leaves) : \E b \in Planned(phase, {empty}, W, o) :
         \E pl \in BuildPlans(b) :
            /\ files_to_create' = b.files_to_create
            /\ files_to_remove' = b.files_to_remove
            /\ dirs_to_create' = b.dirs_to_create
            /\ dirs_to_remove' = b.dirs_to_remove
            /\ plan' = pl
            /\ mods' = pl
    /\ built' = TRUE
    /\ stage' = name
    /\ fs_tx' = fs
    /\ pc' = "idle"
    /\ mode' = "-"
    /\ history' = << >>
    /\ rb' = 0
    /\ tx_err' = FALSE
    /\ res' = NoResult
    /\ undo_tx' = << >>
    /\ log' = << >>
    /\ UNCHANGED <<fs, bak, bakdirs, fs0, run, pushed, proc, processed, required,
                   calls, returned, committed, undone, gens, leaves>>

\* virtual_system.rs 198-218: VirtualSystem<Undeployable>::prepare_deployment
prepare_deployment ==
    /\ stage = "read"
    /\ \E clear_target \in BOOLEAN :
         Started("prepare_deployment",
                 IF clear_target THEN "clear_and_prepare" ELSE "prepare_deployment")
\* virtual_system.rs 230-239 and 245-284: only a VirtualSystem<Deployable>
\* has soft_deploy and hard_deploy.
soft_deploy == stage = "deployable" /\ Started("soft_deploy", "soft_deploy")
hard_deploy == stage = "deployable" /\ Started("hard_deploy", "hard_deploy")
\* virtual_system.rs 164-177: undeploy, of an overlay read or deployed.
undeploy == stage \in {"read", "deployed"} /\ Started("undeploy", "undeploy")

\* res.as_tx_result()?: the workflow goes on only after a transaction
\* whose tx_result is Ok.
PassedAnyway(r) == TRUE
Passed(r) == is_success(r)
\* virtual_system.rs 219-225, 240-242, 285-287, 178-179: run_atomic has
\* returned; prepare_deployment returns the deployable system, the others
\* Ok(()), each the error of a failed transaction.
tx_returns ==
    /\ stage \in {"prepare_deployment", "soft_deploy", "hard_deploy", "undeploy"}
    /\ pc = "done"
    /\ gens' = Append(gens, [gen |-> stage, target |-> Root, ok |-> is_success(res)])
    /\ stage' = IF ~Passed(res) THEN "failed"
                ELSE IF stage = "prepare_deployment" THEN "deployable"
                ELSE IF stage = "undeploy" THEN "undeployed"
                ELSE "deployed"
    /\ pc' = "flow"
    /\ UNCHANGED <<fs, bak, bakdirs, fs0, mode, run, mods, history, rb, tx_err, res,
                   undo_tx, log, planVars, procVars, leaves>>

\* VirtualSystem::read: an overlay with one or two leaves, nothing run yet.
DeployInit ==
    /\ fs \in InitTrees
    /\ fs0 = fs
    /\ bak = [p \in BakPaths |-> NoneNode]
    /\ bakdirs = {}
    /\ pc = "flow"
    /\ mode = "-"
    /\ run = 1
    /\ mods = << >>
    /\ history = << >>
    /\ rb = 0
    /\ tx_err = FALSE
    /\ res = NoResult
    /\ undo_tx = << >>
    /\ log = << >>
    /\ PlannerFresh
    /\ proc = "off"
    /\ ProcessorFresh
    /\ gens = << >>
    /\ stage = "read"
    /\ leaves \in {{<<"b">>}, {<<"a", "b">>}, {<<"b">>, <<"a", "b">>}}

DeployNext ==
    \/ prepare_deployment
    \/ soft_deploy
    \/ hard_deploy
    \/ undeploy
    \/ tx_returns
    \/ AtomicBegin
    \/ AtomicApply
    \/ AtomicLoopEnd
    \/ RollbackBegin
    \/ RollbackStep
    \/ RollbackEnd
    \/ AtomicCleanup

DeploySpec == DeployInit /\ [][DeployNext]_vars

\* ------------------------------------------------------------------ reading the log
IsForward(ev) == ev.e \in {"apply", "fail"}
IsApplied(ev) == ev.e = "apply"
IsInverse(ev) == ev.e \in {"inv", "invfail"}
\* The forward events, the applied primitives and the inverse events of the
\* current run, each in the order they happened.
Forward == SelectSeq(log, IsForward)
AppliedPrims == [j \in DOMAIN SelectSeq(log, IsApplied) |-> SelectSeq(log, IsApplied)[j].p]
Inverses == SelectSeq(log, IsInverse)
Positions(evs) == [j \in DOMAIN evs |-> evs[j].i]
\* i-1, i-2, ..., 0
DownFrom(i) == [j \in 1..i |-> i - j]
\* A primitive of the current run failed / the filesystem itself failed.
HasFailed == \E j \in DOMAIN log : log[j].e = "fail"
NoIoError == res # no_backup_dir /\ \A j \in DOMAIN log : ~log[j].io
\* The tree left by applying ps in order, with no backup directory, to w.
RECURSIVE ApplySeq(_, _)
ApplySeq(w, ps) ==
    IF ps = << >> THEN w ELSE ApplySeq(Apply(Head(ps), w, NoPath).w, Tail(ps))

\* ------------------------------------------------------------------ claims
\* C1 (as claimed): when a primitive fails during run_atomic and every
\* collected inverse then applies (the result is TxFailure), the tree after
\* run_atomic equals the tree before it.
C1_RollbackRestoresPreState ==
    (pc = "done" /\ mode = "atomic" /\ run = 1 /\ res = rb_success) => fs = fs0

\* C2 (as claimed): when run_atomic(P) returned Success(undo_tx), running
\* undo_tx atomically (the filesystem itself not failing) succeeds and
\* leaves exactly the tree P started from.
C2_UndoRestoresPreState ==
    (pc = "done" /\ mode = "atomic" /\ run = 2 /\ NoIoError) =>
        (is_success(res) /\ fs = fs0)

\* C3 (as claimed): when the primitive at position i fails in run_atomic,
\* the inverses executed are exactly those of positions i-1, i-2, ..., 0 in
\* that order, nothing is applied after position i and the failed primitive
\* has no inverse executed.
C3_AllInversesInReverse ==
    (pc = "done" /\ mode = "atomic" /\ HasFailed) =>
        /\ Positions(Inverses) = DownFrom(Len(AppliedPrims))
        /\ log = Forward \o Inverses
        /\ Positions(Forward) = [j \in DOMAIN Forward |-> j - 1]

\* C3 (amended): in run_atomic the primitives are applied at positions
\* 0, 1, ... and nothing is applied after the first failure; the inverses
\* then executed are those of positions i-1, i-2, ... in that order, each the
\* inverse its primitive returned, down to position 0 when the result is
\* TxFailure and stopping at the first inverse that fails otherwise; the
\* failed primitive has no inverse.
C3_InversesInReverseUntilFailure ==
    mode = "atomic" =>
        LET n == Len(AppliedPrims) IN
        /\ log = Forward \o Inverses
        /\ Positions(Forward) = [j \in DOMAIN Forward |-> j - 1]
        /\ \A j \in DOMAIN Forward : Forward[j].e = "fail" => j = Len(Forward)
        /\ Len(history) = n
        /\ Inverses # << >> => HasFailed
        /\ \A j \in DOMAIN Inverses :
            /\ Inverses[j].i = n - j
            /\ Inverses[j].p = history[n - j + 1]
            /\ Inverses[j].e = "invfail" => j = Len(Inverses)
        /\ (pc = "done" /\ res = rb_success) =>
               /\ Positions(Inverses) = DownFrom(n)
               /\ \A j \in DOMAIN Inverses : Inverses[j].e = "inv"
        /\ (pc = "done" /\ res = rb_fail) =>
               (Inverses # << >> /\ Inverses[Len(Inverses)].e = "invfail")

\* C3 witness: the third primitive failed and two different inverses were
\* executed, the second primitive's first.
C3_Witness ==
    /\ pc = "done" /\ mode = "atomic" /\ res = rb_success
    /\ Len(AppliedPrims) = 2
    /\ Positions(Inverses) = <<1, 0>>
    /\ Inverses[1].p # Inverses[2].p

\* C4 (as claimed): after run_atomic returns its result exactly one of these holds:
\* every primitive was applied and the result is Success with an undo
\* transaction; the tree equals the pre-state and the result is TxFailure;
\* the result is FatalFailure.
C4_AtomicGuarantee ==
    (pc = "done" /\ mode = "atomic" /\ run = 1 /\ res # no_backup_dir) =>
        LET a == is_success(res) /\ ~HasFailed /\ undo_tx \in UndoPlans(history)
            b == res = rb_success /\ fs = fs0
            c == is_fatal_failure(res) IN
        /\ a \/ b \/ c
        /\ ~(a /\ b) /\ ~(a /\ c) /\ ~(b /\ c)

C6_HaphazardKeepsPrefixAtomicRestores ==
    /\ mode = "haphazard" =>
        /\ bakdirs = {} /\ history = << >> /\ Inverses = << >>
        /\ Positions(Forward) = [j \in DOMAIN Forward |-> j - 1]
        /\ \A j \in DOMAIN Forward : Forward[j].e = "fail" => j = Len(Forward)
        /\ HasFailed => (pc = "done" /\ res = tx_fail_only)
        /\ fs = ApplySeq([f |-> fs0, b |-> bak, d |-> {}], AppliedPrims).f
    /\ (mode = "atomic" /\ pc = "done" /\ run = 1 /\ HasFailed
            /\ Len(AppliedPrims) > 0 /\ ~is_fatal_failure(res)) =>
        fs = fs0

\* ------------------------------------------------------------------ reading the plan
\* File primitives live in the files_* maps, directory primitives in the
\* dirs_* maps; Nop is in neither.
Kind(p) ==
    IF p.op \in {"Link", "CopyFile", "RemoveFile"} THEN "file"
    ELSE IF p.op \in {"CreateDir", "RemoveDir"} THEN "dir" ELSE "nop"
Creating(p) == p.op \in {"Link", "CopyFile", "CreateDir"}
\* Where the built plan has a primitive for path t / one of kind k for t.
Emitted(t) == {i \in DOMAIN plan : plan[i].tgt = t}
EmittedOfKind(t, k) == {i \in Emitted(t) : Kind(plan[i]) = k}
LastPushed == pushed[Len(pushed)]
\* pushed without its j-th push.
Without(s, j) == SubSeq(s, 1, j - 1) \o SubSeq(s, j + 1, Len(s))
\* The last push repeats the i-th and no push between them touches its path.
RepeatsPush(i) ==
    /\ i < Len(pushed)
    /\ pushed[i] = LastPushed
    /\ LastPushed.op # "Nop"
    /\ \A k \in (i + 1)..(Len(pushed) - 1) : pushed[k].tgt # LastPushed.tgt

\* C7 (as claimed): the plan build emits has at most one primitive per
\* target path, files and directories alike.
C7_OnePrimitivePerPath ==
    built => \A i, j \in DOMAIN plan : i # j => plan[i].tgt # plan[j].tgt

\* C7 (amended): the plan build emits has, per target path, at most one file
\* primitive and at most one directory primitive.
C7_OnePrimitivePerPathAndKind ==
    built => \A i, j \in DOMAIN plan :
        i # j => (plan[i].tgt # plan[j].tgt \/ Kind(plan[i]) # Kind(plan[j]))

\* C7 witness: four pushes, some deduplicated or cancelled, and the plan
\* has a directory primitive and a file primitive for one path.
C7_Witness ==
    /\ built /\ Len(pushed) = 4 /\ Len(plan) < Len(pushed)
    /\ \E i, j \in DOMAIN plan : i # j /\ plan[i].tgt = plan[j].tgt

\* C8 (as claimed): on a fresh planner, CreateDir(p) then RemoveDir(p), or
\* Link{_,t} then RemoveFile(t), builds a plan with no primitive at all for
\* that path.
C8_CancellationEmitsNothing ==
    (built /\ Len(pushed) = 2) =>
        /\ (pushed[1].op = "CreateDir" /\ pushed[2] = RemoveDir(pushed[1].tgt)) =>
               Emitted(pushed[1].tgt) = {}
        /\ (pushed[1].op = "Link" /\ pushed[2] = RemoveFile(pushed[1].tgt)) =>
               Emitted(pushed[1].tgt) = {}

\* C8 (amended): on a fresh planner, CreateDir(p) then RemoveDir(p), or
\* Link{_,t} then RemoveFile(t), builds a plan with no creating primitive
\* for that path: the plan is the removal alone, RemoveDir(p) or
\* RemoveFile(t).
C8_CancellationEmitsRemoval ==
    (built /\ Len(pushed) = 2) =>
        /\ (pushed[1].op = "CreateDir" /\ pushed[2] = RemoveDir(pushed[1].tgt)) =>
               plan = <<RemoveDir(pushed[1].tgt)>>
        /\ (pushed[1].op = "Link" /\ pushed[2] = RemoveFile(pushed[1].tgt)) =>
               plan = <<RemoveFile(pushed[1].tgt)>>

\* C8 witness: Link{_,t} then RemoveFile(t) were pushed and the plan built.
C8_Witness ==
    /\ built /\ Len(pushed) = 2
    /\ pushed[1].op = "Link" /\ pushed[2] = RemoveFile(pushed[1].tgt)
    /\ Len(plan) = 1

\* C9 (as claimed): when a push repeats an earlier one, no push in between
\* touching its target path, the plans build can emit are those of pushing
\* it once, and the plan has exactly one primitive for that target.
C9_RepeatedPushOnePrimitive ==
    built => \A i \in DOMAIN pushed : RepeatsPush(i) =>
        /\ BuildPlans(Builder) = BuildPlans(PushAll(empty, Without(pushed, Len(pushed))))
        /\ BuildPlans(Builder) = BuildPlans(PushAll(empty, Without(pushed, i)))
        /\ Cardinality(Emitted(LastPushed.tgt)) = 1

\* C9 (amended): when a push repeats an earlier one, no push in between
\* touching its target path, the plans build can emit are those of pushing
\* it once, and the plan has exactly one primitive of its kind (file or
\* directory) for that target, the pushed one.
C9_RepeatedPushOnePrimitiveOfKind ==
    built => \A i \in DOMAIN pushed : RepeatsPush(i) =>
        /\ BuildPlans(Builder) = BuildPlans(PushAll(empty, Without(pushed, Len(pushed))))
        /\ BuildPlans(Builder) = BuildPlans(PushAll(empty, Without(pushed, i)))
        /\ plan \in BuildPlans(PushAll(empty, Without(pushed, i)))
        /\ Cardinality(EmittedOfKind(LastPushed.tgt, Kind(LastPushed))) = 1
        /\ \A k \in EmittedOfKind(LastPushed.tgt, Kind(LastPushed)) : plan[k] = LastPushed

\* C9 witness: the planner had the opposite primitive, then the same
\* primitive was pushed twice with a push on another path in between.
C9_Witness ==
    /\ built /\ Len(pushed) = 4
    /\ RepeatsPush(2) /\ pushed[3].op # "Nop"
    /\ pushed[1].tgt = LastPushed.tgt /\ Kind(pushed[1]) = Kind(LastPushed)
    /\ Creating(pushed[1]) # Creating(LastPushed)

\* C10 (as claimed): after pushes that are all on one path and end with a
\* creating primitive, the plan is exactly that last primitive: one
\* primitive for the path and no removal.
C10_LastWriteWins ==
    (built /\ pushed # << >> /\ Creating(LastPushed)
        /\ \A k \in DOMAIN pushed : pushed[k].tgt = LastPushed.tgt) =>
        plan = <<LastPushed>>

\* C10 (amended): after pushes of one kind (file primitives, or directory
\* primitives) on one path that end with a creating primitive, the plan is
\* exactly that last primitive with its own original/source; whatever else
\* was pushed, the plan has exactly one primitive of that kind for the
\* path, the last one pushed, and no removal of that kind.
C10_LastWriteWinsPerKind ==
    (built /\ pushed # << >> /\ Creating(LastPushed)) =>
        /\ (\A k \in DOMAIN pushed :
                pushed[k].tgt = LastPushed.tgt /\ Kind(pushed[k]) = Kind(LastPushed)) =>
               plan = <<LastPushed>>
        /\ Cardinality(EmittedOfKind(LastPushed.tgt, Kind(LastPushed))) = 1
        /\ \A k \in EmittedOfKind(LastPushed.tgt, Kind(LastPushed)) : plan[k] = LastPushed

\* C10 witness: four file pushes on one path, a link, its removal and two
\* more links, the last with another original than the one before.
C10_Witness ==
    /\ built /\ Len(pushed) = 4
    /\ \A k \in DOMAIN pushed : pushed[k].tgt = LastPushed.tgt
    /\ pushed[1].op = "Link" /\ pushed[2].op = "RemoveFile"
    /\ pushed[3].op = "Link" /\ LastPushed.op = "Link"
    /\ pushed[3].src # LastPushed.src
    /\ plan = <<LastPushed>>

\* ------------------------------------------------------------------ the emitted order
\* The primitives a bucket holds, the elements of a sequence, plan entries
\* lo+1 .. lo+n, and depth order along a sequence of primitives.
Entries(m) == {m[k] : k \in Keys(m)}
Range(s) == {s[i] : i \in DOMAIN s}
Seg(lo, n) == SubSeq(plan, lo + 1, lo + n)
Ascending(s) == \A i, j \in DOMAIN s : i < j => Depth(s[i].tgt) <= Depth(s[j].tgt)
Descending(s) == \A i, j \in DOMAIN s : i < j => Depth(s[i].tgt) >= Depth(s[j].tgt)
\* a is a strict prefix (an ancestor) of b.
IsPrefix(a, b) == Len(a) < Len(b) /\ SubSeq(b, 1, Len(a)) = a
\* Where key k stands in the iteration order o.
IndexIn(o, k) == CHOOSE i \in DOMAIN o : o[i] = k
\* Where the plan pl has the primitive q.
PlaceIn(pl, q) == CHOOSE i \in DOMAIN pl : pl[i] = q
\* Keys k1, k2 of bucket m tie on depth.
Tie(m, k1, k2) ==
    /\ k1 \in Keys(m) /\ k2 \in Keys(m) /\ k1 # k2
    /\ Depth(k1) = Depth(k2)

\* C11: the plan build emits is dirs_to_create by depth ascending, then
\* files_to_create by depth ascending, then files_to_remove by depth
\* descending, then dirs_to_remove by depth descending; every bucket entry
\* is emitted exactly once and nothing else.
C11_PlanIsTheFourBucketsInOrder ==
    built =>
        LET n1 == map_len(dirs_to_create)
            n2 == map_len(files_to_create)
            n3 == map_len(files_to_remove)
            n4 == map_len(dirs_to_remove) IN
        /\ Len(plan) = n1 + n2 + n3 + n4
        /\ Range(Seg(0, n1)) = Entries(dirs_to_create)
        /\ Ascending(Seg(0, n1))
        /\ Range(Seg(n1, n2)) = Entries(files_to_create)
        /\ Ascending(Seg(n1, n2))
        /\ Range(Seg(n1 + n2, n3)) = Entries(files_to_remove)
        /\ Descending(Seg(n1 + n2, n3))
        /\ Range(Seg(n1 + n2 + n3, n4)) = Entries(dirs_to_remove)
        /\ Descending(Seg(n1 + n2 + n3, n4))

\* C11 witness: a built plan of four primitives from three buckets, the
\* file removals at two depths.
C11_Witness ==
    /\ built /\ Len(plan) = 4
    /\ map_len(dirs_to_create) = 1 /\ map_len(files_to_create) = 1
    /\ Keys(files_to_remove) = {<<"a">>, <<"a", "b">>}

\* C12: in every emitted plan, for a a strict prefix of b, CreateDir(a)
\* comes before CreateDir(b) when both are emitted and RemoveDir(b) comes
\* before RemoveDir(a) when both are emitted.
C12_OrderingLaw ==
    built => \A i, j \in DOMAIN plan :
        IsPrefix(plan[i].tgt, plan[j].tgt) =>
            /\ (plan[i].op = "CreateDir" /\ plan[j].op = "CreateDir") => i < j
            /\ (plan[i].op = "RemoveDir" /\ plan[j].op = "RemoveDir") => j < i

\* C12 witness: the plan removes a directory and its parent, after the
\* parent was pushed first.
C12_Witness ==
    /\ built
    /\ pushed = <<RemoveDir(<<"a">>), RemoveDir(<<"b">>), RemoveDir(<<"a", "b">>)>>
    /\ plan[1] = RemoveDir(<<"a", "b">>)

\* C13: in every emitted plan every CreateDir(d) comes before every Link or
\* CopyFile whose target lies inside d, and every RemoveFile(f) comes before
\* every RemoveDir(d) where d contains f.
C13_DirsAroundFiles ==
    built => \A i, j \in DOMAIN plan :
        IsPrefix(plan[i].tgt, plan[j].tgt) =>
            /\ (plan[i].op = "CreateDir" /\ plan[j].op \in {"Link", "CopyFile"}) => i < j
            /\ (plan[i].op = "RemoveDir" /\ plan[j].op = "RemoveFile") => j < i

\* C13 witness: the file inside was pushed before its directory, and the
\* plan still creates the directory first.
C13_Witness ==
    /\ built /\ Len(pushed) = 2
    /\ pushed[1].op = "CopyFile" /\ pushed[2] = CreateDir(<<"a">>)
    /\ pushed[1].tgt = <<"a", "b">>
    /\ plan = <<pushed[2], pushed[1]>>

\* C14 (as claimed): within one bucket of the emitted plan, two primitives
\* whose targets have equal depth appear in the order they were pushed
\* (each target being pushed once).
C14_TiesInArrivalOrder ==
    built => \A i, j \in DOMAIN pushed :
        (/\ i < j
         /\ \A k \in DOMAIN pushed \ {i, j} :
                pushed[k].tgt \notin {pushed[i].tgt, pushed[j].tgt}
         /\ pushed[i].op # "Nop" /\ pushed[j].op # "Nop"
         /\ pushed[i].tgt # pushed[j].tgt
         /\ Depth(pushed[i].tgt) = Depth(pushed[j].tgt)
         /\ Kind(pushed[i]) = Kind(pushed[j]) /\ Creating(pushed[i]) = Creating(pushed[j])) =>
            PlaceIn(plan, pushed[i]) < PlaceIn(plan, pushed[j])

\* C14 (amended): within one bucket of the emitted plan, two primitives
\* whose targets have equal depth appear in the order in which the bucket's
\* HashMap iterates them, which the arrival order does not determine, in the
\* two buckets sorted ascending and in the reverse of that order in the two
\* buckets sorted descending.
C14_TiesInIterationOrder ==
    \A o1 \in IterOrders(dirs_to_create), o2 \in IterOrders(files_to_create),
       o3 \in IterOrders(files_to_remove), o4 \in IterOrders(dirs_to_remove) :
        LET pl == build(Builder, o1, o2, o3, o4) IN
        /\ \A k1, k2 \in PlanPaths : Tie(dirs_to_create, k1, k2) =>
            (PlaceIn(pl, dirs_to_create[k1]) < PlaceIn(pl, dirs_to_create[k2])
                <=> IndexIn(o1, k1) < IndexIn(o1, k2))
        /\ \A k1, k2 \in PlanPaths : Tie(files_to_create, k1, k2) =>
            (PlaceIn(pl, files_to_create[k1]) < PlaceIn(pl, files_to_create[k2])
                <=> IndexIn(o2, k1) < IndexIn(o2, k2))
        /\ \A k1, k2 \in PlanPaths : Tie(files_to_remove, k1, k2) =>
            (PlaceIn(pl, files_to_remove[k1]) < PlaceIn(pl, files_to_remove[k2])
                <=> IndexIn(o3, k1) > IndexIn(o3, k2))
        /\ \A k1, k2 \in PlanPaths : Tie(dirs_to_remove, k1, k2) =>
            (PlaceIn(pl, dirs_to_remove[k1]) < PlaceIn(pl, dirs_to_remove[k2])
                <=> IndexIn(o4, k1) > IndexIn(o4, k2))

\* C14 witness: two file removals of equal depth, emitted against the order
\* they were pushed in.
C14_Witness ==
    /\ built
    /\ pushed = <<RemoveFile(<<"a">>), RemoveFile(<<"b">>)>>
    /\ plan = <<RemoveFile(<<"b">>), RemoveFile(<<"a">>)>>

\* ------------------------------------------------------------------ the workflow
\* s is the first Len(s) elements of t.
Starts(s, t) == Len(s) <= Len(t) /\ s = SubSeq(t, 1, Len(s))
Increasing(s) == \A i, j \in DOMAIN s : i < j => s[i] < s[j]
\* The call numbers of the entries of processed, oldest first.
ProcessedCalls == [i \in DOMAIN processed |-> processed[i].n]
\* Control has left rollback: it returned, or an undo transaction failed.
RollbackOver == proc = "failed" \/ (proc = "panic" /\ mode = "haphazard")

NotUndone(n) == \A i \in DOMAIN undone : undone[i] # n
\* The committed calls that no rollback has undone, oldest first.
Pending == SelectSeq(committed, NotUndone)
AllCommittedBefore == Len(committed) = calls - 1

\* C16 (as claimed): when T1..Tn (n >= 1) were committed through one
\* TxProcessor and run_required(T) then failed non-fatally, the tree after
\* run_required has returned is the tree before T1.
C16_UnwindRestoresPreState ==
    (proc = "failed" /\ AllCommittedBefore /\ committed # << >>) => fs = fs0

\* run_atomic has returned to a run_optional called by the workflow, with a
\* result that is not a fatal failure.
OptionalDone == proc = "run_optional" /\ pc = "done" /\ ~required /\ ~is_fatal_failure(res)

\* C17 (as claimed): run_optional(tx) on Success appends tx's undo
\* transaction to the end of processed and returns Ok; on TxFailure it
\* returns the error, leaves processed unchanged, runs no undo transaction,
\* and the tree is the tree just before tx ran.
C17_RunOptionalFrame ==
    [][OptionalDone =>
        IF is_success(res)
        THEN /\ processed' = Append(processed, UndoOf(calls, undo_tx))
             /\ returned' = "Ok"
        ELSE /\ returned' = "Err"
             /\ processed' = processed
             /\ undone' = undone /\ proc' = "ready"
             /\ fs' = fs_tx]_vars

\* run_atomic has returned a FatalFailure to the processor.
FatalDone == proc = "run_optional" /\ pc = "done" /\ res = rb_fail
\* The process has ended on the fatal failure of a transaction.
FatalPanic == proc = "panic" /\ mode = "atomic"

\* C18: when a transaction run through a TxProcessor ends in FatalFailure
\* the process ends there: the next step is the panic, which runs no undo
\* transaction of processed and touches nothing; nothing happens after it
\* (no later transaction, no undo); the backup directory of the failed
\* transaction is still in place.
C18_FatalFailureTerminates ==
    /\ [][FatalDone =>
            /\ proc' = "panic"
            /\ UNCHANGED <<fs, bak, bakdirs, processed, undone, calls, committed>>]_vars
    /\ [][~FatalPanic]_vars
    /\ [](FatalPanic => (res = rb_fail /\ TxId \in bakdirs))

C18_Witness ==
    /\ FatalPanic
    /\ required
    /\ Len(processed) = 2
    /\ processed[1].mods # << >>
    /\ calls = MaxTxs
    /\ TxId \in bakdirs

\* run_haphazard has returned to rollback after a primitive of the undo
\* transaction failed.
UndoFailed == proc = "rollback" /\ pc = "done" /\ res = tx_fail_only
\* The process has ended on the failure of an undo transaction.
RollbackPanic == proc = "panic" /\ mode = "haphazard"

RestoredBy(w, q) == q.ok /\ q.w.f = w.f
\* If r, the outcome of a primitive applied to w, is Ok(Q), then Q applied
\* with no backup directory to the world r left succeeds and restores w.
InverseRestores(w, r) == r.ok => RestoredBy(w, Apply(r.inv, r.w, NoPath))
\* run_atomic is between two primitives: its backup directory exists.
BetweenPrimitives == pc = "fwd" /\ mode = "atomic"

\* C20 (as claimed): for every primitive P, applied with a backup directory
\* to a state S in which P.apply succeeds returning Q, applying Q with no
\* backup directory to the state P left succeeds and yields the tree of S.
C20_PrimitiveInverse ==
    BetweenPrimitives =>
        \A p \in Prims : InverseRestores(W, Apply(p, W, BackupFile(Pos + 1)))

\* ------------------------------------------------------------------ the primitives
\* The last entry of the log, once there is one.
LastEvent == log[Len(log)]
\* This step of run_atomic applies CreateDir to a path that exists (by the
\* no-follow test), the filesystem itself not failing.
CreatesExisting ==
    /\ BetweenPrimitives
    /\ log' # log
    /\ log'[Len(log')].p.op = "CreateDir"
    /\ ~log'[Len(log')].io
    /\ LExists(W, log'[Len(log')].p.tgt)

\* C21 (as claimed): the directory-creation primitive applied to a path that
\* exists (a file, a directory or a symlink, not followed) returns an error
\* and leaves the filesystem unchanged.
C21_CreateDirFailsOnExisting ==
    BetweenPrimitives =>
        \A p \in Prims : (p.op = "CreateDir" /\ LExists(W, p.tgt)) =>
            (~Apply(p, W, BackupFile(Pos + 1)).ok /\ Apply(p, W, BackupFile(Pos + 1)).w = W)

\* C21 (amended): the directory-creation primitive applied to a path that
\* exists succeeds, returns the inverse Nop and leaves the filesystem
\* unchanged; inside run_atomic the run goes on with the next primitive, no
\* rollback is triggered.
C21_CreateDirOnExistingIsNop ==
    /\ [](BetweenPrimitives =>
            \A p \in Prims : (p.op = "CreateDir" /\ LExists(W, p.tgt)) =>
                Apply(p, W, BackupFile(Pos + 1)) = Done(W, Nop))
    /\ [][CreatesExisting =>
            /\ log'[Len(log')].e = "apply"
            /\ history' = Append(history, Nop)
            /\ pc' = "fwd"
            /\ UNCHANGED <<fs, bak, tx_err>>]_vars

C21_Witness ==
    /\ BetweenPrimitives
    /\ Len(log) = 2
    /\ log[1].e = "apply" /\ log[1].p \in {Link(<<"m">>, <<"a">>), CopyFile(<<"m">>, <<"a">>)}
    /\ log[2].e = "apply" /\ log[2].p = CreateDir(<<"a">>)
    /\ history[2] = Nop
    /\ fs[<<"a">>].k # "dir"

\* The locations of the tree at which worlds w and v differ.
Changed(w, v) == {q \in FsPaths : w.f[q] # v.f[q]}
\* Which of p and its ancestors (p is the first) do not exist in w.
MissingOn(w, p) == {j \in 1..Len(p) : ~LExists(w, Ancestors(p)[j])}
\* r is the outcome of CreateDir(p) on w: one directory was added, at p.
AddsOnlyItself(w, p, r) ==
    /\ r.inv = RemoveDir(p)
    /\ Changed(w, r.w) = {Loc(w, p)}
    /\ r.w.f[Loc(w, p)] = DirNode
\* r is the outcome of CreateDir(p) on w: p and its missing ancestors were
\* added, as directories, and nothing else changed.
AddsMissingAncestors(w, p, r) ==
    /\ r.inv = RemoveDir(p)
    /\ IsDir(r.w, p)
    /\ \A q \in Changed(w, r.w) : w.f[q] = NoneNode /\ r.w.f[q] = DirNode
    /\ Cardinality(Changed(w, r.w)) = Cardinality(MissingOn(w, p))
    /\ r.w.b = w.b
\* The parent of p does not exist in w.
ParentMissing(w, p) == Len(p) > 1 /\ ~LExists(w, Parent(p))

CopyRespectsTarget(w, target, r) ==
    /\ LExists(w, target) => r = Failed(w)
    /\ r.ok => (~LExists(w, target) /\ r.inv = RemoveFile(target))

\* C23: CopyFile{source, target} fails whenever anything exists at target,
\* symlinks not followed (a file, a directory, a symlink, dangling or not),
\* and then the filesystem is unchanged; when it succeeds target did not
\* exist before and the inverse is RemoveFile(target).
C23_CopyFileNeverOverwrites ==
    BetweenPrimitives =>
        \A p \in Prims : p.op = "CopyFile" =>
            CopyRespectsTarget(W, p.tgt, Apply(p, W, BackupFile(Pos + 1)))

\* CopyFile onto a dangling symlink has failed and nothing changed.
C23_Witness ==
    /\ pc = "rollback_tx" /\ mode = "atomic" /\ run = 1
    /\ fs0[<<"a">>] = LinkNode(<<"b">>) /\ fs0[<<"b">>] = NoneNode
    /\ log = <<Event("fail", 0, CopyFile(<<"m">>, <<"a">>), FALSE)>>
    /\ fs = fs0

\* run_atomic has not yet reached the removal of its backup directory.
BackupsKept == mode = "atomic" /\ pc \in {"fwd", "rollback_tx", "rollback", "cleanup"}
\* The j-th applied primitive of the run was backed up: its inverse copies
\* the backup file back and the backup file is there.
BackedUp(j) ==
    /\ history[j] = CopyFile(<<"backups", TxId, ToString(j)>>, AppliedPrims[j].tgt)
    /\ bak[<<"backups", TxId, ToString(j)>>] # NoneNode

\* C24: inside run_atomic every RemoveFile of the transaction that is applied
\* has a backup copy in the backup directory and the inverse
\* CopyFile{backup, p}, never Nop.
C24_AtomicRemovalsBackedUp ==
    BackupsKept =>
        /\ Len(history) = Len(AppliedPrims)
        /\ \A j \in DOMAIN history : AppliedPrims[j].op = "RemoveFile" => BackedUp(j)

C24_Witness ==
    /\ BackupsKept /\ pc = "rollback" /\ run = 1
    /\ Len(history) = 2
    /\ AppliedPrims[2] = RemoveFile(<<"a">>)
    /\ BackedUp(2)
    /\ fs0[<<"a">>] = FileNode("c1")

\* The backup at location bk holds what was at path in w: the contents of a
\* regular file, a symlink for a symlink.
HoldsBackup(w, path, v, bk) ==
    IF LNode(w, path).k = "link" THEN v.b[bk].k = "link" ELSE v.b[bk] = LNode(w, path)
\* b is the outcome of the backup copy of path to bk, r that of
\* RemoveFile(path) applied to w with that backup.
RemovesAfterBackup(w, path, bk, b, r) ==
    /\ ~b.ok => r = Failed(w)
    /\ r.ok => /\ b.ok
               /\ ~LExists(r.w, path)
               /\ HoldsBackup(w, path, r.w, bk)
               /\ r.inv = CopyFile(bk, path)
\* r is the outcome of RemoveFile(path) applied with no backup directory.
RemovesWithoutBackup(w, path, r) ==
    r.ok => (~LExists(r.w, path) /\ r.inv = Nop /\ r.w.b = w.b)

\* C30: RemoveFile(p) with a backup directory copies p to the backup before
\* unlinking it: when the copy fails p is not removed and the filesystem is
\* unchanged; on success p is gone, the backup holds p's content (a symlink
\* for a symlink) and the inverse is CopyFile{backup, p}; with no backup
\* directory the inverse is Nop.
C30_RemoveFileBacksUpFirst ==
    BetweenPrimitives =>
        \A p \in Prims : p.op = "RemoveFile" =>
            /\ RemovesAfterBackup(W, p.tgt, BackupFile(Pos + 1),
                                  copy_file_or_symlink(W, p.tgt, BackupFile(Pos + 1)),
                                  Apply(p, W, BackupFile(Pos + 1)))
            /\ RemovesWithoutBackup(W, p.tgt, Apply(p, W, NoPath))

C30_Witness ==
    /\ BetweenPrimitives /\ run = 1
    /\ fs0[<<"a">>] = LinkNode(<<"m">>)
    /\ log = <<Event("apply", 0, RemoveFile(<<"a">>), FALSE)>>
    /\ fs[<<"a">>] = NoneNode
    /\ bak[<<"backups", "t1", "1">>].k = "link"
    /\ history = <<CopyFile(<<"backups", "t1", "1">>, <<"a">>)>>
    /\ ~Apply(RemoveFile(<<"b">>), W, BackupFile(2)).ok
    /\ fs[<<"b">>].k = "link"

\* ------------------------------------------------------------------ the generators
\* The call a step appends to gens, and the call made last.
Called(name) == gens' # gens /\ gens'[Len(gens')].gen = name
LastGen == gens[Len(gens)]
Buckets == <<files_to_create, files_to_remove, dirs_to_create, dirs_to_remove>>
NotADirectory(w, p) == LNode(w, p).k \in {"file", "link"}

\* C25: remove_dir_all(target) on a regular file or on a symbolic link
\* returns an error and leaves the four buckets of the planner as they were.
C25_RemoveDirAllRejectsNonDirectory ==
    [][(Called("remove_dir_all") /\ NotADirectory(W, gens'[Len(gens')].target))
          => (~gens'[Len(gens')].ok /\ UNCHANGED Buckets)]_vars
\* remove_dir_all was refused on a symbolic link and on a file, with
\* primitives already planned.
C25_Witness ==
    /\ pc = "gen" /\ Len(gens) = 2 /\ len(Builder) > 0
    /\ LastGen.gen = "remove_dir_all" /\ ~LastGen.ok
    /\ NotADirectory(W, LastGen.target)

\* The world before the first run, and the one generator call that made
\* the plan under run.
W0 == [f |-> fs0, b |-> [p \in BakPaths |-> NoneNode], d |-> {}]
OnlyCall(name) == Len(gens) = 1 /\ gens[1].gen = name /\ gens[1].ok
RemovesTree == OnlyCall("remove_dir_all") /\ LNode(W0, gens[1].target).k = "dir"
RanAtomically(n) == built /\ pc = "done" /\ mode = "atomic" /\ run = n /\ NoIoError

\* C26: for any directory tree rooted at target, the plan built after
\* remove_dir_all(target) runs atomically to Success: no RemoveDir fails
\* (each finds its directory empty), afterwards target does not exist, and
\* the undo transaction of the run restores the tree, every directory and
\* every file's content.
C26_RemovesTreeAndUndoRestores ==
    RemovesTree =>
        /\ RanAtomically(1) =>
              /\ is_success(res)
              /\ ~LExists(W, gens[1].target)
              /\ \A j \in DOMAIN log : log[j].e = "fail" => log[j].p.op # "RemoveDir"
        /\ RanAtomically(2) => (is_success(res) /\ fs = fs0)

\* q lies in the tree rooted at t; the entry of path q differs between
\* the planner before and after the step.
Inside(t, q) == Len(t) <= Len(q) /\ SubSeq(q, 1, Len(t)) = t
Replanned(q) ==
    \/ files_to_create'[q] # files_to_create[q]
    \/ files_to_remove'[q] # files_to_remove[q]
    \/ dirs_to_create'[q] # dirs_to_create[q]
    \/ dirs_to_remove'[q] # dirs_to_remove[q]
\* remove_any(t) on a file or a symbolic link plans RemoveFile(t), which
\* takes the place of a file planned before to be created at t, and nothing
\* else.
PlansOneRemoveFile(t) ==
    /\ gens'[Len(gens')].ok
    /\ files_to_remove' = [files_to_remove EXCEPT ![t] = RemoveFile(t)]
    /\ files_to_create' = [files_to_create EXCEPT ![t] = NoPrim]
    /\ UNCHANGED <<dirs_to_create, dirs_to_remove>>
\* remove_dir_all(t) plans RemoveFile for the symbolic links in the tree of
\* t and touches no path outside it.
PlansInsideTree(t) ==
    \A q \in FsPaths :
        /\ Replanned(q) => Inside(t, q)
        /\ (gens'[Len(gens')].ok /\ Inside(t, q) /\ LNode(W, q).k = "link")
              => files_to_remove'[q] = RemoveFile(q)

\* C27: the removal generators never follow symbolic links: remove_any on a
\* file or on a symbolic link (one to a directory included) plans exactly
\* RemoveFile(target); remove_dir_all plans a RemoveFile for every symbolic
\* link inside the tree and no primitive on a path outside the tree rooted
\* at target.
C27_RemovalNeverFollowsLinks ==
    [][/\ (Called("remove_any") /\ NotADirectory(W, gens'[Len(gens')].target))
            => PlansOneRemoveFile(gens'[Len(gens')].target)
       /\ Called("remove_dir_all") => PlansInsideTree(gens'[Len(gens')].target)]_vars
\* remove_any was called on a symbolic link to a directory that has content,
\* then remove_dir_all on the directory holding that link.
C27_Witness ==
    /\ pc = "gen" /\ Len(gens) = 2
    /\ gens[1].gen = "remove_any" /\ gens[1].target = <<"a", "b">>
    /\ gens[2].gen = "remove_dir_all" /\ gens[2].target = <<"a">> /\ gens[2].ok
    /\ fs[<<"a", "b">>] = LinkNode(<<"b">>) /\ fs[<<"b", "a">>].k = "file"
    /\ files_to_remove[<<"a", "b">>] = RemoveFile(<<"a", "b">>)
    /\ ~will_remove_file(Builder, <<"b", "a">>)

\* ------------------------------------------------------------------ the deployment
Deploys == {"soft_deploy", "hard_deploy"}
\* A step that hands a deploy transaction to the executor.
DeployStarts == stage' \in Deploys /\ stage \notin Deploys
PrepareSucceeded ==
    gens # << >> /\ LastGen.gen = "prepare_deployment" /\ LastGen.ok
PrepareFailed == \E i \in DOMAIN gens : gens[i].gen = "prepare_deployment" /\ ~gens[i].ok

\* C28: soft_deploy and hard_deploy are only ever executed right after
\* prepare_deployment of the overlay completed successfully; once
\* prepare_deployment has failed, no deploy transaction is run.
C28_DeployOnlyAfterPrepare ==
    [][/\ DeployStarts => PrepareSucceeded
       /\ PrepareFailed => (stage' \notin Deploys /\ stage' # "deployable")]_vars
\* A deployment is running after a successful preparation that created a
\* directory.
C28_Witness ==
    /\ stage \in Deploys /\ pc = "fwd" /\ PrepareSucceeded
    /\ fs0[<<"a">>].k = "none" /\ fs[<<"a">>].k = "dir"
\* A preparation has failed and the workflow is over.
C28_WitnessFailed == PrepareFailed /\ stage = "failed"

\* The world before the current transaction, and the real places of the
\* leaves' targets in it.
WTx == [f |-> fs_tx, b |-> [p \in BakPaths |-> NoneNode], d |-> {}]
LeafPlaces == {Loc(WTx, t) : t \in leaves}
RoundTrip ==
    /\ Len(gens) = 3 /\ stage = "undeployed"
    /\ gens[1].gen = "prepare_deployment" /\ gens[1].ok
    /\ gens[2].gen = "soft_deploy" /\ gens[2].ok
    /\ gens[3].gen = "undeploy" /\ gens[3].ok

\* C29: after a successful prepare_deployment and soft_deploy followed by a
\* successful undeploy, no leaf target exists, every directory that existed
\* after the deploy still exists, and nothing but the leaves was removed.
C29_UndeployRemovesLeavesOnly ==
    RoundTrip =>
        /\ \A t \in leaves : ~LExists(W, t)
        /\ \A p \in FsPaths : fs_tx[p].k = "dir" => fs[p].k = "dir"
        /\ \A p \in FsPaths : fs[p] # fs_tx[p] => p \in LeafPlaces
\* The round trip of an overlay with two leaves, the parent /a of one
\* created by the preparation.
C29_Witness ==
    /\ RoundTrip /\ Cardinality(leaves) = 2
    /\ fs0[<<"a">>].k = "none" /\ fs[<<"a">>].k = "dir"
    /\ fs_tx[<<"a", "b">>] = LinkNode(<<"m">>)

\* ------------------------------------------------------------------ ensure_dirs
\* q is target or one of its ancestors below the root.
AncestorOrSelf(q, t) == q # Root /\ Inside(q, t)
\* The directories ensure_dirs(t) has to plan in the state it is called in.
ToPlan(t) ==
    {q \in FsPaths : AncestorOrSelf(q, t) /\ ~LExists(W, q) /\ ~will_create_dir(Builder, q)}
PlansMissingDirs(t) ==
    /\ gens'[Len(gens')].ok
    /\ dirs_to_create' =
          [q \in FsPaths |-> IF q \in ToPlan(t) THEN CreateDir(q) ELSE dirs_to_create[q]]
    /\ UNCHANGED <<files_to_create, files_to_remove, dirs_to_remove>>
\* The step repeats the ensure_dirs call made just before it.
CalledAgain ==
    /\ Called("ensure_dirs") /\ gens # << >>
    /\ LastGen.gen = "ensure_dirs" /\ LastGen.target = gens'[Len(gens')].target
EnsureDirsPlans ==
    [][/\ Called("ensure_dirs") => PlansMissingDirs(gens'[Len(gens')].target)
       /\ CalledAgain => UNCHANGED Buckets]_vars
\* The plan of one ensure_dirs(target) call was run: it succeeded and target
\* is a directory.
EnsuredDir ==
    (OnlyCall("ensure_dirs") /\ RanAtomically(1))
        => (is_success(res) /\ IsDir(W, gens[1].target))
\* Whatever exists at target or above it before the run is a directory (or
\* a link to one).
NothingInTheWay(t) ==
    \A q \in FsPaths : (AncestorOrSelf(q, t) /\ LExists(W0, q)) => IsDir(W0, q)

\* C31 (as claimed): ensure_dirs(target) plans CreateDir for exactly the
\* ancestors-or-self of target that neither exist nor are planned, a second
\* call changes nothing, and the built plan always runs to success and
\* leaves target a directory.
C31_EnsureDirsAlwaysEnsures == EnsureDirsPlans /\ []EnsuredDir
\* C31 (amended): the same, the run succeeding and leaving target a
\* directory when nothing but directories exists at target and above it.
C31_EnsureDirsEnsuresWhenFree ==
    EnsureDirsPlans
    /\ []((OnlyCall("ensure_dirs") /\ NothingInTheWay(gens[1].target)) => EnsuredDir)
\* ensure_dirs(/a/b) planned CreateDir(/a) and CreateDir(/a/b) on a tree
\* without /a, the plan ran, and /a/b is a directory.
C31_Witness ==
    /\ OnlyCall("ensure_dirs") /\ gens[1].target = <<"a", "b">> /\ RanAtomically(1)
    /\ fs0[<<"a">>].k = "none"
    /\ plan = <<CreateDir(<<"a">>), CreateDir(<<"a", "b">>)>>
    /\ is_success(res) /\ fs[<<"a", "b">>].k = "dir"

\* ------------------------------------------------------------------ create_links
\* The one create_links call that made the plan: its root, its links and
\* the virtual target of its i-th link.
LinksRoot == gens[1].target.root
Links == gens[1].target.links
VirtTarget(i) == LinksRoot \o Links[i].abs_target
PlaceOf(m) == CHOOSE k \in DOMAIN plan : plan[k] = m
\* Every planned Link is the link of the list at its virtual target, and
\* every virtual target has one.
LinksAtVirtTargets ==
    /\ \A q \in Keys(files_to_create) :
          \E i \in DOMAIN Links : q = VirtTarget(i) /\ files_to_create[q].tgt = q
    /\ \A i \in DOMAIN Links : files_to_create[VirtTarget(i)].op = "Link"
\* Every missing directory down to the parent of a virtual target is created
\* before the Link in the plan.
DirsBeforeLinks ==
    \A i \in DOMAIN Links : \A d \in FsPaths :
        (AncestorOrSelf(d, Parent(VirtTarget(i))) /\ ~LExists(W0, d))
            => /\ CreateDir(d) \in Range(plan)
               /\ PlaceOf(CreateDir(d)) < PlaceOf(files_to_create[VirtTarget(i)])
\* Nothing exists under the root, itself a directory or absent.
NothingUnderRoot ==
    /\ LinksRoot # Root => fs0[LinksRoot].k \in {"none", "dir"}
    /\ \A q \in FsPaths : (Inside(LinksRoot, q) /\ q # LinksRoot) => fs0[q].k = "none"
\* No target of the list lies below another target of the list.
NoTargetBelowAnother ==
    \A i, j \in DOMAIN Links :
        Inside(Links[i].abs_target, Links[j].abs_target)
            => Links[i].abs_target = Links[j].abs_target
LinksPlanned == OnlyCall("create_links") /\ built
LinksRan == LinksPlanned /\ RanAtomically(1) /\ NothingUnderRoot

\* C32 (as claimed): each planned Link has the virtual target of its link,
\* the missing directories down to its parent are created before it, and
\* the plan run where nothing exists under root applies every primitive.
C32_LinksPlanAlwaysRuns ==
    /\ LinksPlanned => (LinksAtVirtTargets /\ DirsBeforeLinks)
    /\ LinksRan => is_success(res)
\* C32 (amended): the plan applies every primitive when no target of the
\* list lies below another one.
C32_LinksPlanRunsWithoutClash ==
    /\ LinksPlanned => (LinksAtVirtTargets /\ DirsBeforeLinks)
    /\ (LinksRan /\ NoTargetBelowAnother) => is_success(res)
\* Links to /a/b and /b were planned under the root / of an empty tree, with
\* CreateDir(/a) first, and the plan ran.
C32_Witness ==
    /\ LinksRan /\ NoTargetBelowAnother /\ LinksRoot = Root
    /\ Len(Links) = 2 /\ Links[1].abs_target = <<"a", "b">> /\ Links[2].abs_target = <<"b">>
    /\ plan[1] = CreateDir(<<"a">>) /\ Len(plan) = 3
    /\ fs[<<"a", "b">>] = LinkNode(<<"m">>) /\ fs[<<"b">>] = LinkNode(<<"m">>)

\* ------------------------------------------------------------------ the undo transaction
Count(s, m) == Cardinality({i \in DOMAIN s : s[i] = m})
\* The place of a primitive's bucket in the planner's emit order.
BucketOf(m) ==
    CASE m.op = "CreateDir" -> 1
      [] m.op \in {"Link", "CopyFile"} -> 2
      [] m.op = "RemoveFile" -> 3
      [] m.op = "RemoveDir" -> 4
      [] OTHER -> 0
InEmitOrder(s) == \A i, j \in DOMAIN s : i < j => BucketOf(s[i]) <= BucketOf(s[j])
Succeeded == pc = "done" /\ mode = "atomic" /\ run = 1 /\ is_success(res)
\* undo_tx holds every inverse in history but Nop, as often as history does.
HoldsEveryInverse ==
    /\ Nop \notin Range(undo_tx)
    /\ \A m \in (Range(history) \cup Range(undo_tx)) \ {Nop} :
          Count(undo_tx, m) = Count(history, m)

\* C33: the undo transaction of a successful run_atomic holds exactly the
\* non-Nop inverses of the applied primitives, none lost to the planner's
\* deduplication or cancellation, in the planner's emit order (directory
\* creations, file creations, file removals, directory removals).
C33_UndoHoldsEveryInverse == Succeeded => (HoldsEveryInverse /\ InEmitOrder(undo_tx))

\* ------------------------------------------------------------------ termination
\* run_atomic is past the creation of its backup directory and has not
\* returned; it has returned.
AtomicRunning == mode = "atomic" /\ pc \in {"fwd", "rollback_tx", "rollback", "cleanup"}
AtomicReturned == mode = "atomic" /\ pc = "done"
\* The result is a success with every primitive applied, a failure with
\* every collected inverse applied, or a fatal failure; the error returned
\* when the backup directory cannot be created comes before any primitive.
OneOutcome ==
    CASE res = success -> ~HasFailed
      [] res = rb_success -> Len(Inverses) = Len(AppliedPrims) /\ HasFailed
      [] res = rb_fail -> HasFailed
      [] res = no_backup_dir -> log = << >>
      [] OTHER -> FALSE

\* C34: run_atomic always terminates: once started it reaches its return
\* with exactly one of success, failure with the rollback done, or fatal
\* failure, and never returns from a half-executed forward pass or rollback
\* without reporting the fatal failure.
C34_RunAtomicTerminates ==
    /\ AtomicRunning ~> AtomicReturned
    /\ [](AtomicReturned => OneOutcome)
\* A run has returned a failure after its second primitive failed and the
\* first was rolled back.
C34_Witness ==
    /\ AtomicReturned /\ res = rb_success /\ mods = << >>
    /\ Len(AppliedPrims) = 1 /\ Len(Inverses) = 1 /\ HasFailed

\* ---------------------------------------------------------------- processed
\* run_atomic has returned Success to the processor.
Committing == proc = "run_optional" /\ pc = "done" /\ is_success(res)
\* No call number occurs twice in s.
NoRepeat(s) == \A i, j \in DOMAIN s : i # j => s[i] # s[j]
Holds(pl, m) == \E i \in DOMAIN pl : pl[i] = m
\* Plan pl holds a primitive that creates a file or symlink at p.
HoldsCreateFile(pl, p) ==
    \E i \in DOMAIN pl : pl[i].op \in {"Link", "CopyFile"} /\ pl[i].tgt = p
\* The four predicates and len describe plan pl.
Describes(pl) ==
    /\ \A p \in FsPaths :
        /\ will_create_dir(Builder, p) <=> Holds(pl, CreateDir(p))
        /\ will_remove_dir(Builder, p) <=> Holds(pl, RemoveDir(p))
        /\ will_create_file(Builder, p) <=> HoldsCreateFile(pl, p)
        /\ will_remove_file(Builder, p) <=> Holds(pl, RemoveFile(p))
    /\ len(Builder) = Len(pl)
\* C36: in every planner state the four predicates and len describe every
\* plan build can emit from that state, and the plan it did emit:
\* will_create_dir(p) iff the plan holds CreateDir(p), will_remove_dir(p) iff
\* it holds RemoveDir(p), will_create_file(p) iff it holds a Link or a
\* CopyFile to p, will_remove_file(p) iff it holds RemoveFile(p), and len()
\* is the length of the plan.
C36_PredicatesAgreeWithPlan ==
    /\ \A pl \in BuildPlans(Builder) : Describes(pl)
    /\ built => Describes(plan)
\* Four pushes, one of them cancelled, and a plan of three primitives with
\* a directory to create, a file to create and a file to remove.
C36_Witness ==
    /\ built /\ Len(pushed) = 4 /\ Len(plan) = 3
    /\ will_create_dir(Builder, <<"a">>)
    /\ will_create_file(Builder, <<"a", "b">>)
    /\ will_remove_file(Builder, <<"b">>)
    /\ ~will_remove_dir(Builder, <<"a">>)
    /\ \E i \in DOMAIN pushed : pushed[i] = RemoveDir(<<"a">>)

\* ---------------------------------------------------------------- the buckets
\* Every entry of bucket m is stored under its target and its op is in ops.
HoldsOnly(m, ops) ==
    \A k \in Keys(m) : m[k].tgt = k /\ m[k].op \in ops
\* C37: in every planner state no path is a key of both files_to_create and
\* files_to_remove, none is a key of both dirs_to_create and dirs_to_remove,
\* every stored primitive has the key it is stored under as its target, and
\* each bucket holds primitives of its own kind only: Link and CopyFile in
\* files_to_create, RemoveFile in files_to_remove, CreateDir in
\* dirs_to_create, RemoveDir in dirs_to_remove.
C37_BucketsDisjointAndTyped ==
    /\ Keys(files_to_create) \cap Keys(files_to_remove) = {}
    /\ Keys(dirs_to_create) \cap Keys(dirs_to_remove) = {}
    /\ HoldsOnly(files_to_create, {"Link", "CopyFile"})
    /\ HoldsOnly(files_to_remove, {"RemoveFile"})
    /\ HoldsOnly(dirs_to_create, {"CreateDir"})
    /\ HoldsOnly(dirs_to_remove, {"RemoveDir"})
\* A removal of /a was pushed and then a Link to /a, which took its place;
\* /a is also a directory to create and /a/b a directory to remove.
C37_Witness ==
    /\ Len(pushed) = 4
    /\ pushed[1] = RemoveFile(<<"a">>) /\ pushed[2].op = "Link"
    /\ Keys(files_to_create) = {<<"a">>} /\ Keys(files_to_remove) = {}
    /\ Keys(dirs_to_create) = {<<"a">>}
    /\ Keys(dirs_to_remove) = {<<"a", "b">>}

\* ---------------------------------------------------------------- the frame of push
\* A push has just been made: pushed grows by the primitive pushed.
Pushing == Len(pushed') = Len(pushed) + 1
JustPushed == pushed'[Len(pushed')]
FilesUnchanged == UNCHANGED <<files_to_create, files_to_remove>>
DirsUnchanged == UNCHANGED <<dirs_to_create, dirs_to_remove>>
\* The four buckets have at path q the entries they had.
SameAt(q) ==
    /\ files_to_create'[q] = files_to_create[q]
    /\ files_to_remove'[q] = files_to_remove[q]
    /\ dirs_to_create'[q] = dirs_to_create[q]
    /\ dirs_to_remove'[q] = dirs_to_remove[q]
\* C38: a push of Nop leaves the four buckets as they are; a push of a Link,
\* a CopyFile or a RemoveFile leaves dirs_to_create and dirs_to_remove as
\* they are, a push of a CreateDir or a RemoveDir leaves files_to_create and
\* files_to_remove as they are; a push with target t leaves the entry of
\* every other path as it is in all four buckets.
C38_PushFrame ==
    [][Pushing =>
        /\ Kind(JustPushed) = "nop" => (FilesUnchanged /\ DirsUnchanged)
        /\ Kind(JustPushed) = "file" => DirsUnchanged
        /\ Kind(JustPushed) = "dir" => FilesUnchanged
        /\ \A q \in FsPaths \ {JustPushed.tgt} : SameAt(q)]_vars
\* /a was planned as a directory to create and /b as a file to remove; a
\* Link to /a and a Nop were pushed after them.
C38_Witness ==
    /\ pushed = <<CreateDir(<<"a">>), RemoveFile(<<"b">>), Link(<<"m">>, <<"a">>), Nop>>
    /\ Keys(dirs_to_create) = {<<"a">>}
    /\ Keys(files_to_remove) = {<<"b">>}
    /\ Keys(files_to_create) = {<<"a">>}

\* ---------------------------------------------------------------- a failed rollback
\* An inverse has failed in the current run.
InverseFailed == \E j \in DOMAIN log : log[j].e = "invfail"
\* run_atomic has returned a FatalFailure.
FatalReturned == pc = "done" /\ mode = "atomic" /\ is_fatal_failure(res)
\* C39: in run_atomic the inverse that fails is the last thing attempted:
\* the inverses before it are those of the newest applied primitives, newest
\* first, and the inverses of the older applied primitives are never
\* attempted; the failing inverse and everything after it leave the tree as
\* it was, so the tree of a FatalFailure is the tree the newest successful
\* inverse (or, with none, the last applied primitive) left, with the
\* effects of the older primitives in it; the result is a FatalFailure exactly
\* when an inverse failed, and it carries the error of the transaction and
\* the error of the rollback.
C39_RollbackStopsAtFirstFailure ==
    /\ [](mode = "atomic" =>
            /\ \A j \in DOMAIN log : log[j].e = "invfail" => j = Len(log)
            /\ \A j \in DOMAIN Inverses : Inverses[j].i = Len(AppliedPrims) - j
            /\ InverseFailed => (HasFailed /\ tx_err /\ res = rb_fail)
            /\ (pc = "done" /\ is_fatal_failure(res)) => InverseFailed)
    /\ [][(mode = "atomic" /\ InverseFailed) =>
            UNCHANGED <<fs, log, res, history>>]_vars
    /\ [][(mode = "atomic" /\ ~InverseFailed /\ InverseFailed') => fs' = fs]_vars
    /\ [](FatalReturned =>
            /\ res.tx_result = "Err" /\ res.rb_result = "Err"
            /\ (run = 1 /\ Len(Inverses) = 1) =>
                   fs = ApplySeq([f |-> fs0, b |-> bak, d |-> {}], AppliedPrims).f)
\* Two primitives were applied and the third failed; the inverse of the
\* second failed, the inverse of the first, a Link, was never attempted and
\* the link is still there.
C39_Witness ==
    /\ FatalReturned /\ run = 1
    /\ Len(AppliedPrims) = 2
    /\ Positions(Inverses) = <<1>>
    /\ AppliedPrims[1].op = "Link"
    /\ fs0[AppliedPrims[1].tgt].k = "none"
    /\ fs[AppliedPrims[1].tgt].k = "link"

====
